---- MODULE Spec2Model ----
(***************************************************************************)
(* Knowledge-base ingestion: the job lifecycle (JobService), the ingestion *)
(* pipeline (KBIngestionHelper.perform_ingestion), the rollback            *)
(* (cleanup_chroma_chunks_by_job) and the cancel-ingestion request, all    *)
(* running against one knowledge base and one job table.                   *)
(*                                                                         *)
(* Every await of the code is a point where another task of the event loop *)
(* may run, so each action below is the code between two awaits.  The      *)
(* vector store and the task scheduler are the environment: a write or a   *)
(* delete may succeed or raise, and a running task may be cancelled.       *)
(*                                                                         *)
(* SpecDb adds a job datastore that may be unavailable at a status update; *)
(* SpecJobs is the JobService called directly: create_job,                 *)
(* update_job_status and get_latest_jobs_by_asset_ids over a job table of  *)
(* several assets.  SpecKb is the pipeline together with the metadata     *)
(* document (embedding_metadata.json) and its reads; SpecMeta is that file *)
(* under two worker processes whose writes are not atomic; SpecChunks is   *)
(* the paginated chunk listing over the stores an ingestion can leave.     *)
(***************************************************************************)
EXTENDS Integers, Sequences, FiniteSets, TLC

\* ------------------------------------------------------------------ bounds
\* Number of cancel-ingestion requests the model accepts.
MaxCancels == 2
\* Number of direct calls of the JobService the model makes in a run.
MaxCalls == 4
\* Chunks written per batch (kb_constants.INGESTION_BATCH_SIZE, a tunable).
INGESTION_BATCH_SIZE == 2

\* Write attempts per batch (kb_constants.MAX_RETRY_ATTEMPTS).
MAX_RETRY_ATTEMPTS == 3

\* The job ids of the model: at most two ingestions of the knowledge base.
JobIds == 1..2

\* The chunk counts of the uploaded files of one request: 0 is a file that
\* is empty or whitespace-only, a count above the batch size needs two batches.
FileLists ==
    { <<>>,
      <<INGESTION_BATCH_SIZE + 1>>,
      <<0, INGESTION_BATCH_SIZE>>,
      <<INGESTION_BATCH_SIZE, INGESTION_BATCH_SIZE>> }

FileIdx == 1..2
ChunkIdx == 0..INGESTION_BATCH_SIZE

\* A stored record is identified by the job_id, file and chunk_index of its
\* metadata; the store counts the records that carry the same three.
Keys == JobIds \X FileIdx \X ChunkIdx

\* ------------------------------------------------------------ JobStatus
QUEUED == "queued"
IN_PROGRESS == "in_progress"
COMPLETED == "completed"
FAILED == "failed"
CANCELLED == "cancelled"
TIMED_OUT == "timed_out"

JobStatus == {QUEUED, IN_PROGRESS, COMPLETED, FAILED, CANCELLED, TIMED_OUT}
Terminal == {COMPLETED, FAILED, CANCELLED, TIMED_OUT}

\* ------------------------------------------------------------ exceptions
IngestionCancelledError == "IngestionCancelledError"
TimeoutError == "TimeoutError"
AssertionError == "AssertionError"
WriteError == "Exception"
ValueError == "ValueError"
\* An error of the store that is none of OSError, ValueError, TypeError,
\* ChromaError (the engine's "readonly database" fault is one).
StoreError == "StoreError"
\* The error of the database session when the job datastore is unavailable.
DbError == "OperationalError"
UserCancelled == "CancelledError:LANGFLOW_USER_CANCELLED"
SystemCancelled == "CancelledError"

WriteErrors == {WriteError, TimeoutError, AssertionError}
CancelSignals == {UserCancelled, SystemCancelled}

VARIABLES
    jobs,        \* the job table: job_id -> row
    now,         \* the clock read by datetime.now
    tpc,         \* each background task's position
    files,       \* files_data of each task (chunk count per file)
    fi,          \* index of the file being ingested
    bi,          \* i of the batch loop
    attempt,     \* attempt of the retry loop
    processed,   \* len(processed_files)
    total,       \* total_chunks_created
    exc,         \* the exception in flight in the task
    workout,     \* how perform_ingestion ended
    eout,        \* how execute_with_status ended
    store,       \* the vector store collection
    revoked,     \* tasks revoke_task was called for
    cpc,         \* position of the cancel-ingestion handler
    cjob,        \* the job the cancel handler works on, and what revoke_task returned
    resp,        \* the last response of the cancel endpoint
    cancelsLeft, \* cancel requests still to come
    hist,        \* what happened to each task, kept for the properties
    call,        \* the last direct call of the JobService, and its answer
    metadata_file, \* what embedding_metadata.json holds
    uuids,       \* how many ids uuid4 has handed out for the knowledge base
    request,     \* the chunking parameters and file names of each task's request
    mproc,       \* the metadata reads and writes of each worker process
    query,       \* the last chunk listing, and its response
    identifier_to_system, \* SharedSystemClient._identifier_to_system, by path
    sessions,    \* how many session tags uuid4 has handed out
    kb_dirs,     \* what the directory of each knowledge base holds
    storage      \* the last call on the storage of a knowledge base, and its outcome

vars == <<jobs, now, tpc, files, fi, bi, attempt, processed, total, exc,
          workout, eout, store, revoked, cpc, cjob, resp, cancelsLeft, hist, call,
          metadata_file, uuids, request, mproc, query,
          identifier_to_system, sessions, kb_dirs, storage>>

taskVars == <<tpc, files, fi, bi, attempt, processed, total, exc, workout, eout>>
cancelVars == <<cpc, cjob, resp, cancelsLeft>>
kbVars == <<metadata_file, uuids, request>>
storeVars == <<identifier_to_system, sessions, kb_dirs, storage>>

\* asset_id of a job that belongs to no asset (None), and of the jobs of the
\* knowledge base of the model.
NoAsset == 0
KbAsset == 1

\* The job ids and the asset ids of the direct calls of the JobService.
RowIds == 1..3
AssetIds == {NoAsset, KbAsset, KbAsset + 1}
RequestIds == {KbAsset, KbAsset + 1, KbAsset + 2}

NoJob == [exists |-> FALSE, status |-> QUEUED, created |-> 0, finished |-> 0,
          asset |-> NoAsset]
NoCall == [op |-> "none", n |-> 0, job |-> 0, status |-> "none", fin |-> FALSE,
           req |-> {}, raised |-> "none", result |-> {},
           rows |-> [j \in RowIds |-> 0]]
NoOutcome == [kind |-> "none", val |-> "none"]
NoHist == [rollbacks |-> 0, rollbackOutcome |-> "none", sawCancel |-> FALSE, flagged |-> FALSE,
           exhausted |-> "none", allTimeout |-> TRUE, setStatus |-> "none",
           removed |-> 0, signalled |-> FALSE,
           builds |-> 0, writes |-> 0, fails |-> 0, checked |-> FALSE,
           wrote |-> FALSE, done |-> {}, dbDown |-> FALSE, alone |-> TRUE,
           saved |-> FALSE]

\* ------------------------------------------------- the vector store's content
\* The text of the record with key k, as its characters: the chunks of a
\* file are "a", "a b", "b", "a", ...
Text(k) ==
    CASE k[3] % 3 = 0 -> <<"a">>
      [] k[3] % 3 = 1 -> <<"a", " ", "b">>
      [] OTHER       -> <<"b">>

\* len(text.split()): the number of maximal runs without whitespace.
WordCount(t) ==
    Cardinality({i \in 1..Len(t) : t[i] # " " /\ (i = 1 \/ t[i - 1] = " ")})

\* collection.count(): the number of records.
RECURSIVE SumOver(_, _, _)
SumOver(st, S, w) ==
    IF S = {} THEN 0
    ELSE LET k == CHOOSE x \in S : TRUE
         IN st[k] * w[k] + SumOver(st, S \ {k}, w)

Count(st) == SumOver(st, DOMAIN st, [k \in DOMAIN st |-> 1])

\* _calculate_text_metrics over the "document" column: the words and the
\* characters of all records.
TotalWords(st) == SumOver(st, DOMAIN st, [k \in DOMAIN st |-> WordCount(Text(k))])
TotalCharacters(st) == SumOver(st, DOMAIN st, [k \in DOMAIN st |-> Len(Text(k))])

\* get_directory_size: the bytes of the files under the knowledge base's
\* directory, which grow and shrink with the records of the store.
BaseSize == 1
DirectorySize(st) == BaseSize + TotalCharacters(st)

\* ------------------------------------------------- the metadata document
\* JSON null, and a JSON value that is present.
None == <<>>
Some(v) == <<v>>

\* The id of a document that holds none (an empty string).
NoId == 0

Unknown == "Unknown"

\* What embedding_metadata.json holds: no file, a file json.loads cannot
\* decode, or a JSON object (a function from its keys to their values).
EmptyDoc == [k \in {} |-> None]
Missing == [st |-> "missing", doc |-> EmptyDoc]
Undecodable == [st |-> "undecodable", doc |-> EmptyDoc]
OnDisk(d) == [st |-> "doc", doc |-> d]

\* defaults of get_metadata; id is a uuid4 drawn at the call.
Defaults(newId) ==
    [chunks |-> 0, words |-> 0, characters |-> 0,
     embedding_provider |-> Unknown, embedding_model |-> Unknown,
     id |-> newId, size |-> 0, source_types |-> {},
     chunk_size |-> None, chunk_overlap |-> None, separator |-> None]

RequiredKeys == DOMAIN Defaults(NoId)

\* The document create_knowledge_base writes.
CreatedDoc(kb_id, provider, model) ==
    [id |-> kb_id, embedding_provider |-> provider, embedding_model |-> model,
     chunks |-> 0, words |-> 0, characters |-> 0, size |-> 0,
     column_config |-> None]

\* json.loads(metadata_file.read_text()) inside the try of get_metadata:
\* {} when there is no file or when the content does not decode.
Loaded(file) == IF file.st = "doc" THEN file.doc ELSE EmptyDoc

MissingKeys(d) == ~(RequiredKeys \subseteq DOMAIN d)

HasUnknowns(d) ==
    \/ ("embedding_provider" \in DOMAIN d /\ d["embedding_provider"] = Unknown)
    \/ ("embedding_model" \in DOMAIN d /\ d["embedding_model"] = Unknown)

\* A backfill that only a FULL read runs.
BackfillOnlyFull(file, fast, d) ==
    ~fast /\ (file.st = "missing" \/ MissingKeys(d) \/ HasUnknowns(d))

\* backfill_needed of get_metadata.
BackfillNeeded(file, fast, d) ==
    file.st = "missing" \/ MissingKeys(d) \/ (~fast /\ HasUnknowns(d))

\* The early return of get_metadata.
FastReturn(fast, d) == fast /\ ~MissingKeys(d)

\* The loop over defaults: a key the document lacks, or an empty id, takes
\* the default.
FillDefaults(d, newId) ==
    [k \in DOMAIN d \cup RequiredKeys |->
        IF k \notin DOMAIN d \/ (k = "id" /\ d[k] = NoId)
        THEN Defaults(newId)[k]
        ELSE d[k]]

\* What the backfill reads from the directory: its size and what
\* _detect_embedding_provider and _detect_embedding_model find there.
Surroundings(size, provider, model) ==
    [size |-> size, provider |-> provider, model |-> model]

\* The body of "if backfill_needed": defaults, the directory's size, and a
\* detection for each field that is "Unknown".
Backfilled(d, newId, env) ==
    LET f == FillDefaults(d, newId)
    IN [f EXCEPT !["size"] = env.size,
                 !["embedding_provider"] = IF @ = Unknown THEN env.provider ELSE @,
                 !["embedding_model"] = IF @ = Unknown THEN env.model ELSE @]

\* A read that treats every call as a FULL one.
GetMetadataAlwaysFull(file, fast, newId, env) ==
    LET metadata == Loaded(file)
    IN IF BackfillNeeded(file, FALSE, metadata)
       THEN [ret |-> Backfilled(metadata, newId, env), wrote |-> TRUE]
       ELSE [ret |-> metadata, wrote |-> FALSE]

\* get_metadata(kb_path, fast): the document it returns, and whether it
\* wrote that document to the file.
GetMetadata(file, fast, newId, env) ==
    LET metadata == Loaded(file)
    IN IF FastReturn(fast, metadata)
       THEN [ret |-> metadata, wrote |-> FALSE]
       ELSE IF BackfillNeeded(file, fast, metadata)
       THEN [ret |-> Backfilled(metadata, newId, env), wrote |-> TRUE]
       ELSE [ret |-> metadata, wrote |-> FALSE]

\* The file after get_metadata.
AfterGetMetadata(file, fast, newId, env) ==
    LET r == GetMetadata(file, fast, newId, env)
    IN IF r.wrote THEN OnDisk(r.ret) ELSE file

\* Whether the call used the uuid4 it drew.
UsedNewId(file, fast, newId, env) ==
    LET r == GetMetadata(file, fast, newId, env)
    IN r.wrote /\ r.ret["id"] = newId

\* update_text_metrics: chunks is the store's count; words and characters
\* are recomputed only when that count is positive.
UpdateTextMetrics(d, st) ==
    IF Count(st) > 0
    THEN [d EXCEPT !["chunks"] = Count(st), !["words"] = TotalWords(st),
                   !["characters"] = TotalCharacters(st)]
    ELSE [d EXCEPT !["chunks"] = Count(st)]

\* The parameters of an ingest request: chunk_size, chunk_overlap, separator
\* and the names of the uploaded files.
Request(chunk_size, chunk_overlap, separator, names) ==
    [chunk_size |-> chunk_size, chunk_overlap |-> chunk_overlap,
     separator |-> separator, names |-> names]

\* The defaults of the form of the ingest endpoint.
DefaultChunkSize == 1000
DefaultChunkOverlap == 200
DefaultSeparator == ""
NoRequest == Request(DefaultChunkSize, DefaultChunkOverlap, DefaultSeparator, <<>>)

\* A file name as the pair of what stands before its last dot and what stands
\* after it; a name without a dot has NoDot after it.
NoDot == "no dot"
FileName(stem, ext) == <<stem, ext>>

\* str.lower() of the extensions the requests use.
Lower(ext) ==
    CASE ext = "TXT" -> "txt"
      [] ext = "Md"  -> "md"
      [] OTHER       -> ext

\* {f.rsplit(".", 1)[-1].lower() for f in processed_files if "." in f}
NewSourceTypes(names, processed_files) ==
    {Lower(names[i][2]) : i \in {n \in processed_files : names[n][2] # NoDot}}

\* separator or None
StoredSeparator(separator) == IF separator = "" THEN None ELSE Some(separator)

\* Source types that are replaced by those of the call.
MergedSourceTypesReplace(old, new) == new

\* list(set(existing_source_types + new_source_types))
MergedSourceTypes(old, new) == old \cup new

\* The document perform_ingestion writes after the file loop: metadata is
\* what get_metadata(fast=True) returned, st the store, r the request and
\* processed_files the files that were ingested.
IngestionMetadata(metadata, st, r, processed_files) ==
    LET m == UpdateTextMetrics(metadata, st)
    IN [k \in DOMAIN m \cup {"size", "chunk_size", "chunk_overlap", "separator",
                             "source_types"} |->
          CASE k = "size" -> DirectorySize(st)
            [] k = "chunk_size" -> Some(r.chunk_size)
            [] k = "chunk_overlap" -> Some(r.chunk_overlap)
            [] k = "separator" -> StoredSeparator(r.separator)
            [] k = "source_types" ->
                 MergedSourceTypes(IF "source_types" \in DOMAIN m
                                   THEN m["source_types"] ELSE {},
                                   NewSourceTypes(r.names, processed_files))
            [] OTHER -> m[k]]

\* What the backfill finds in the directory of a knowledge base that was
\* created by create_knowledge_base: the chroma directory is there, and no
\* configuration file names a model.
Here(st) == Surroundings(DirectorySize(st), "Chroma", Unknown)

\* The knowledge base of the model, as create_knowledge_base leaves it.
KbId == 1
KbProvider == "OpenAI"
KbModel == "text-embedding-3-small"
Created == OnDisk(CreatedDoc(KbId, KbProvider, KbModel))

\* The files that reach processed_files: those that are not empty.
ProcessedFiles(fs) == {k \in 1..Len(fs) : fs[k] > 0}

\* A request with the form's defaults for files that are all named doc.txt.
DefaultRequest(fs) ==
    Request(DefaultChunkSize, DefaultChunkOverlap, DefaultSeparator,
            [k \in 1..Len(fs) |-> FileName("doc", "txt")])

\* The worker processes that serve the knowledge base's directory, and a
\* process that has not touched the metadata file.
Procs == 1..2
NoProc == [pc |-> "idle", op |-> "none", fast |-> FALSE, saw |-> "none",
           ret |-> EmptyDoc, pending |-> EmptyDoc, wrote |-> FALSE]

\* No chunk listing yet.
NoQuery == [page |-> 0, limit |-> 0, search |-> <<>>, has_data |-> FALSE,
            chunks |-> <<>>, total |-> 0, total_pages |-> 0, queries |-> 0]

\* ------------------------------------------------- the store's handles
\* The directories of two knowledge bases; the pipeline and the listing work
\* on the first.
KbPath == "kb"
OtherPath == "other"
Paths == {KbPath, OtherPath}

\* A knowledge base's directory: whether it exists, and whether it holds
\* physical vector data (one of chroma, chroma.sqlite3, index).
NoDir == [exists |-> FALSE, has_data |-> FALSE]
EmptyDir == [exists |-> TRUE, has_data |-> FALSE]
DataDir == [exists |-> TRUE, has_data |-> TRUE]

\* A guard that looks for the directory, not for what it holds.
HasDataIfExists(dir) == dir.exists

\* has_data = any((kb_path / m).exists() for m in ["chroma", "chroma.sqlite3",
\* "index"])
HasData(dir) == dir.has_data

\* No handle: a key the registry does not hold, a call that returned none.
NoSystem == 0

\* A registry whose entry is left where it is.
InvalidateNothing(reg, path_key) == reg

\* The entry of the registry under path_key is deleted if there is one.
Invalidate(reg, path_key) == [reg EXCEPT ![path_key] = NoSystem]

\* What opening the storage of a directory may meet: it works, or the
\* engine raises one of its own errors or another one.
OpenOutcomes == {"ok", "ChromaError", StoreError}

\* chromadb.PersistentClient(path, settings) with settings that carry a new
\* session tag: a system cached under the path has other settings, which the
\* constructor refuses with ValueError; otherwise the system is built,
\* cached under the path and returned, unless the engine raises.
PersistentClient(reg, path_key, tag, outcome) ==
    LET raised == IF reg[path_key] # NoSystem THEN ValueError
                  ELSE IF outcome = "ok" THEN "none" ELSE outcome
    IN [registry |-> IF raised = "none" THEN [reg EXCEPT ![path_key] = tag] ELSE reg,
        client |-> IF raised = "none" THEN tag ELSE NoSystem,
        raised |-> raised]

\* get_fresh_chroma_client(kb_path): the registry after the call, the
\* handle it returns (by its session tag) and the error it raises.
GetFreshChromaClient(reg, path_key, tag, outcome) ==
    PersistentClient(Invalidate(reg, path_key), path_key, tag, outcome)

\* The errors teardown_storage catches and logs.
TeardownCaught == {"OSError", "ValueError", "TypeError", "ChromaError"}

\* contextlib.suppress(Exception) around delete_collection: whatever the
\* delete raises is dropped.
Suppressed(outcome) == "none"

\* teardown_storage(kb_path, kb_name): the registry after it, whether it
\* opened a handle, and the error it lets through ("none" when it returns).
TeardownStorage(reg, path, has_data, tag, open, drop) ==
    IF ~has_data
    THEN [registry |-> reg, opened |-> FALSE, raised |-> "none"]
    ELSE LET c == GetFreshChromaClient(reg, path, tag, open)
             e == IF c.raised = "none" THEN Suppressed(drop) ELSE c.raised
         IN [registry |-> c.registry, opened |-> TRUE,
             raised |-> IF e \in TeardownCaught THEN "none" ELSE e]

\* No call on the storage yet.
NoStorage == [name |-> "none", paths |-> <<>>, client |-> NoSystem,
              raised |-> "none", code |-> 0, found |-> {}, removed |-> {},
              before |-> [p \in Paths |-> NoSystem]]

\* No handle was opened so far.
NoHandles ==
    /\ identifier_to_system = [p \in Paths |-> NoSystem]
    /\ sessions = 0
    /\ storage = NoStorage

\* The first knowledge base was created with its storage initialised; the
\* other one does not exist.
KbDirs == [p \in Paths |-> IF p = KbPath THEN DataDir ELSE NoDir]

\* The system before any request.
Fresh ==
    /\ jobs = [j \in JobIds |-> NoJob]
    /\ now = 0
    /\ tpc = [j \in JobIds |-> "none"]
    /\ files = [j \in JobIds |-> <<>>]
    /\ fi = [j \in JobIds |-> 0]
    /\ bi = [j \in JobIds |-> 0]
    /\ attempt = [j \in JobIds |-> 0]
    /\ processed = [j \in JobIds |-> 0]
    /\ total = [j \in JobIds |-> 0]
    /\ exc = [j \in JobIds |-> "none"]
    /\ workout = [j \in JobIds |-> NoOutcome]
    /\ eout = [j \in JobIds |-> NoOutcome]
    /\ store = [k \in Keys |-> 0]
    /\ revoked = [j \in JobIds |-> FALSE]
    /\ cpc = "idle"
    /\ cjob = [id |-> 0, revoked |-> FALSE]
    /\ resp = [code |-> 0, detail |-> "none"]
    /\ cancelsLeft = MaxCancels
    /\ hist = [j \in JobIds |-> NoHist]
    /\ call = NoCall
    /\ metadata_file = Created
    /\ uuids = KbId
    /\ request = [j \in JobIds |-> NoRequest]
    /\ mproc = [p \in Procs |-> NoProc]
    /\ query = NoQuery
    /\ NoHandles
    /\ kb_dirs = KbDirs

\* ------------------------------------------------------------- job table
\* The error of the insert when the table already holds a row with the
\* job_id (job_id is the primary key), "none" when it holds none.
IntegrityError == "IntegrityError"

\* A job table without a key on job_id.
CreateJobNoKey(js, j) == "none"

CreateJobRaises(js, j) == IF js[j].exists THEN IntegrityError ELSE "none"

\* JobService.create_job: a row with status QUEUED, created now, not
\* finished, for the asset given; nothing is written when the insert raises.
CreateJob(js, j, a, t) ==
    IF CreateJobRaises(js, j) = "none"
    THEN [js EXCEPT ![j] = [exists |-> TRUE, status |-> QUEUED, created |-> t,
                            finished |-> 0, asset |-> a]]
    ELSE js

\* crud.update_job_status: sets the status of the row if there is one.
CrudUpdateJobStatus(js, j, status) ==
    IF js[j].exists THEN [js EXCEPT ![j].status = status] ELSE js

\* update_job_status as it would be if it never set the finished timestamp.
UpdateJobStatusNoStamp(js, j, status, finished_timestamp, t) ==
    CrudUpdateJobStatus(js, j, status)

\* JobService.update_job_status: the crud update, then the finished
\* timestamp when the caller asks for it.
UpdateJobStatus(js, j, status, finished_timestamp, t) ==
    LET upd == CrudUpdateJobStatus(js, j, status)
    IN  IF upd[j].exists /\ finished_timestamp
        THEN [upd EXCEPT ![j].finished = t]
        ELSE upd

\* The clock after an update: datetime.now is read only when a stamp is set.
Tick(finished_timestamp) == IF finished_timestamp THEN now + 1 ELSE now

\* get_latest_jobs_by_asset_ids for the one knowledge base: the rows in
\* descending created_timestamp order, the first one kept.
HasJob(js) == \E j \in JobIds : js[j].exists
LatestJob(js) ==
    CHOOSE j \in JobIds :
        /\ js[j].exists
        /\ \A k \in JobIds : js[k].exists => js[k].created <= js[j].created

\* _is_job_cancelled: the row exists and its status is CANCELLED.
IsJobCancelled(js, j) == js[j].exists /\ js[j].status = CANCELLED

\* ------------------------------------------------------------ the store
Min(a, b) == IF a < b THEN a ELSE b

\* The records of one batch: chunks[i : i + INGESTION_BATCH_SIZE] of file f,
\* chunk_index i + j, all carrying the job's id.
BatchKeys(j, f, i, n) ==
    { <<j, f, c>> : c \in i .. (Min(i + INGESTION_BATCH_SIZE, n) - 1) }

\* aadd_documents: every document of the batch becomes a new record.
AddDocuments(st, docs) == [k \in Keys |-> IF k \in docs THEN st[k] + 1 ELSE st[k]]

\* A delete whose filter is dropped: every record of the collection goes.
DeleteEverything(st, j) == [k \in Keys |-> 0]

\* adelete(where={"job_id": job_id}): the records of that job are removed.
DeleteWhereJob(st, j) == [k \in Keys |-> IF k[1] = j THEN 0 ELSE st[k]]

JobCount(st, j) == Cardinality({k \in Keys : k[1] = j /\ st[k] > 0})

\* What the delete of a rollback may do: succeed, or raise an error.
DeleteOutcomes == {"ok", "ChromaError", StoreError}

\* The errors cleanup_chroma_chunks_by_job catches and logs.
CleanupCaught == {"OSError", "ValueError", "TypeError", "ChromaError"}

\* A cleanup that issues no delete.
CleanupStoreNoDelete(st, j, outcome) == st

\* cleanup_chroma_chunks_by_job: the store after it, and the error it lets
\* through ("none" when it returns).
CleanupStore(st, j, outcome) == IF outcome = "ok" THEN DeleteWhereJob(st, j) ELSE st
CleanupRaises(outcome) ==
    IF outcome = "ok" \/ outcome \in CleanupCaught THEN "none" ELSE outcome

\* --------------------------------------------------------- ingest request
\* A file loop that takes every file, empty or not.
NextFileNoSkip(fs, k) == k

\* The first file at or after k that is not empty (empty files are skipped).
RECURSIVE NextFile(_, _)
NextFile(fs, k) ==
    IF k > Len(fs) THEN k
    ELSE IF fs[k] = 0 THEN NextFile(fs, k + 1)
    ELSE k

\* No task is running and no cancel request is being served.
Quiet == cpc = "idle" /\ \A j \in JobIds : tpc[j] \in {"none", "done"}

\* ingest_files_to_knowledge_base: reads the metadata with fast=False (which
\* may backfill the file), creates the job row and fires the task with the
\* request's parameters.  The document always holds an id here, so the
\* branch that generates one is not taken.
IngestWith(fs, r) ==
    /\ \E j \in JobIds :
        /\ ~jobs[j].exists
        /\ \A k \in JobIds : k < j => jobs[k].exists
        /\ jobs' = CreateJob(jobs, j, KbAsset, now + 1)
        /\ now' = now + 1
        /\ tpc' = [tpc EXCEPT ![j] = "fired"]
        /\ files' = [files EXCEPT ![j] = fs]
        /\ request' = [request EXCEPT ![j] = r]
        /\ hist' = [hist EXCEPT ![j] = [@ EXCEPT !.alone = Quiet]]
    /\ metadata_file' = AfterGetMetadata(metadata_file, FALSE, uuids + 1, Here(store))
    /\ uuids' = IF UsedNewId(metadata_file, FALSE, uuids + 1, Here(store))
                THEN uuids + 1 ELSE uuids
    /\ UNCHANGED <<call, mproc, query, storeVars, fi, bi, attempt, processed, total, exc, workout, eout,
                   store, revoked, cancelVars>>

Ingest(fs) == IngestWith(fs, DefaultRequest(fs))

\* ------------------------------------------------- execute_with_status
H(j, f, v) == [hist EXCEPT ![j] = [@ EXCEPT ![f] = v]]

\* What a call of update_job_status meets: the datastore answers, or it is
\* unavailable.
DbOutcomes == {"ok", "down"}

\* An update whose datastore error is caught and dropped.
UpdateSwallowed(db) == "none"

\* The error a call of update_job_status raises ("none" when it returns):
\* the session's error is not caught anywhere in the call.
UpdateRaises(db) == IF db = "ok" THEN "none" ELSE DbError

\* The job table after a call of update_job_status that met outcome db.
UpdateJobStatusDb(js, j, status, finished_timestamp, t, db) ==
    IF db = "ok" THEN UpdateJobStatus(js, j, status, finished_timestamp, t) ELSE js

\* The clock after that call.
TickDb(finished_timestamp, db) == IF db = "ok" THEN Tick(finished_timestamp) ELSE now

\* The try block opens with update_job_status(job_id, IN_PROGRESS); the
\* wrapped function is awaited after it.  An error of the update is raised
\* inside the try block, and an except clause takes it.
ExecStartWith(j, dbs) ==
    /\ tpc[j] = "fired"
    /\ \E db \in dbs :
        /\ jobs' = UpdateJobStatusDb(jobs, j, IN_PROGRESS, FALSE, now, db)
        /\ now' = TickDb(FALSE, db)
        /\ IF UpdateRaises(db) = "none"
           THEN /\ tpc' = [tpc EXCEPT ![j] = "embed"]
                /\ UNCHANGED exc
           ELSE /\ tpc' = [tpc EXCEPT ![j] = "workraise"]
                /\ exc' = [exc EXCEPT ![j] = UpdateRaises(db)]
        /\ hist' = IF db = "ok" THEN hist ELSE H(j, "dbDown", TRUE)
    /\ UNCHANGED <<call, kbVars, mproc, query, storeVars, files, fi, bi, attempt, processed, total, workout, eout,
                   store, revoked, cancelVars>>

ExecStart(j) == ExecStartWith(j, {"ok"})

\* The except clauses as they would be without the asyncio.TimeoutError one.
StatusForErrorNoTimeout(e) ==
    IF e \in CancelSignals
    THEN (IF e = UserCancelled THEN CANCELLED ELSE FAILED)
    ELSE FAILED

\* The except clauses as they would be if every cancellation counted as the
\* user's.
StatusForErrorNoTag(e) ==
    IF e = AssertionError THEN FAILED
    ELSE IF e = TimeoutError THEN TIMED_OUT
    ELSE IF e \in CancelSignals THEN CANCELLED
    ELSE FAILED

\* The status each except clause of execute_with_status sets: AssertionError,
\* asyncio.TimeoutError, asyncio.CancelledError by its message, Exception.
StatusForError(e) ==
    IF e = AssertionError THEN FAILED
    ELSE IF e = TimeoutError THEN TIMED_OUT
    ELSE IF e \in CancelSignals
         THEN (IF e = UserCancelled THEN CANCELLED ELSE FAILED)
    ELSE FAILED

\* How execute_with_status ends after its last update: with the error of
\* the update if it raised one, otherwise as the clause at hand ends.
EndAfterUpdate(db, otherwise) ==
    IF UpdateRaises(db) = "none"
    THEN otherwise
    ELSE [kind |-> "raised", val |-> UpdateRaises(db)]

\* The ghost record of an update: the status it set, or that it failed.
Recorded(j, db, status) ==
    IF db = "ok" THEN H(j, "setStatus", status) ELSE H(j, "dbDown", TRUE)

\* The else clause: the wrapped function returned.
ExecCompletedWith(j, dbs) ==
    /\ tpc[j] = "workret"
    /\ \E db \in dbs :
        /\ jobs' = UpdateJobStatusDb(jobs, j, COMPLETED, TRUE, now + 1, db)
        /\ now' = TickDb(TRUE, db)
        /\ eout' = [eout EXCEPT ![j] =
               EndAfterUpdate(db, [kind |-> "returned", val |-> workout[j].val])]
        /\ hist' = Recorded(j, db, COMPLETED)
    /\ tpc' = [tpc EXCEPT ![j] = "done"]
    /\ UNCHANGED <<call, kbVars, mproc, query, storeVars, files, fi, bi, attempt, processed, total, exc, workout,
                   store, revoked, cancelVars>>

ExecCompleted(j) == ExecCompletedWith(j, {"ok"})

\* An except clause: the status for the error, the finished stamp, raise.
ExecFailedWith(j, dbs) ==
    /\ tpc[j] = "workraise"
    /\ \E db \in dbs :
        /\ jobs' = UpdateJobStatusDb(jobs, j, StatusForError(exc[j]), TRUE, now + 1, db)
        /\ now' = TickDb(TRUE, db)
        /\ eout' = [eout EXCEPT ![j] =
               EndAfterUpdate(db, [kind |-> "raised", val |-> exc[j]])]
        /\ hist' = Recorded(j, db, StatusForError(exc[j]))
    /\ tpc' = [tpc EXCEPT ![j] = "done"]
    /\ UNCHANGED <<call, kbVars, mproc, query, storeVars, files, fi, bi, attempt, processed, total, exc, workout,
                   store, revoked, cancelVars>>

ExecFailed(j) == ExecFailedWith(j, {"ok"})

\* ---------------------------------------------------- perform_ingestion
\* Where the file loop stands once file k is reached: its first batch, or
\* the metadata update when no file is left.
EnterFile(j, k) ==
    LET f == NextFile(files[j], k)
    IN  /\ fi' = [fi EXCEPT ![j] = f]
        /\ bi' = [bi EXCEPT ![j] = 0]
        /\ attempt' = [attempt EXCEPT ![j] = 0]
        /\ tpc' = [tpc EXCEPT ![j] = IF f > Len(files[j]) THEN "finalize" ELSE "check"]

\* An exception leaves the try block of perform_ingestion.
Raise(j, e, handler) ==
    /\ exc' = [exc EXCEPT ![j] = e]
    /\ tpc' = [tpc EXCEPT ![j] = handler]

\* A resolution that is tried again when no option matches.
BuildEmbeddingsRetried(j) ==
    /\ tpc[j] = "embed"
    /\ hist' = H(j, "builds", hist[j].builds + 1)
    /\ \/ /\ EnterFile(j, 1)
       \/ /\ UNCHANGED <<tpc, fi, bi, attempt>>
    /\ UNCHANGED <<call, kbVars, mproc, query, storeVars, jobs, now, files, processed, total, exc, workout, eout,
                   store, revoked, cancelVars>>

\* _build_embeddings: the embedding option is found, or ValueError.
BuildEmbeddings(j) ==
    /\ tpc[j] = "embed"
    /\ \/ /\ EnterFile(j, 1)
          /\ UNCHANGED exc
       \/ /\ Raise(j, ValueError, "rollbackE")
          /\ UNCHANGED <<fi, bi, attempt>>
    /\ hist' = H(j, "builds", hist[j].builds + 1)
    /\ UNCHANGED <<call, kbVars, mproc, query, storeVars, jobs, now, files, processed, total, workout, eout,
                   store, revoked, cancelVars>>

\* The check at the head of the batch loop.
PreBatchCheck(j) ==
    /\ tpc[j] = "check"
    /\ IF IsJobCancelled(jobs, j)
       THEN /\ Raise(j, IngestionCancelledError, "rollbackC")
            /\ hist' = H(j, "sawCancel", TRUE)
            /\ UNCHANGED attempt
       ELSE /\ tpc' = [tpc EXCEPT ![j] = "acheck"]
            /\ attempt' = [attempt EXCEPT ![j] = 0]
            /\ hist' = [hist EXCEPT ![j] =
                   [@ EXCEPT !.allTimeout = TRUE, !.writes = 0, !.fails = 0]]
            /\ UNCHANGED exc
    /\ UNCHANGED <<call, kbVars, mproc, query, storeVars, jobs, now, files, fi, bi, processed, total, workout, eout,
                   store, revoked, cancelVars>>

\* The check at the head of the retry loop.
AttemptCheck(j) ==
    /\ tpc[j] = "acheck"
    /\ IF IsJobCancelled(jobs, j)
       THEN /\ Raise(j, IngestionCancelledError, "rollbackC")
            /\ hist' = H(j, "sawCancel", TRUE)
       ELSE /\ tpc' = [tpc EXCEPT ![j] = "write"]
            /\ hist' = H(j, "checked", TRUE)
            /\ UNCHANGED exc
    /\ UNCHANGED <<call, kbVars, mproc, query, storeVars, jobs, now, files, fi, bi, attempt, processed, total, workout,
                   eout, store, revoked, cancelVars>>

\* A batch loop that steps one chunk too far.
NextBatchSkip(i) == i + INGESTION_BATCH_SIZE + 1

\* range(0, len(chunks), INGESTION_BATCH_SIZE): the start of the next batch.
NextBatch(i) == i + INGESTION_BATCH_SIZE

\* After a batch is written: the next batch of the file, or the file is
\* counted and the next file entered.
AfterBatch(j) ==
    LET n == files[j][fi[j]]
        i == NextBatch(bi[j])
    IN  IF i < n
        THEN /\ bi' = [bi EXCEPT ![j] = i]
             /\ tpc' = [tpc EXCEPT ![j] = "check"]
             /\ UNCHANGED <<fi, attempt, processed, total>>
        ELSE /\ EnterFile(j, fi[j] + 1)
             /\ total' = [total EXCEPT ![j] = @ + n]
             /\ processed' = [processed EXCEPT ![j] = @ + 1]

\* The retry loop as it would be if it gave up one failure later.
LastAttemptOneMore(a) == a = MAX_RETRY_ATTEMPTS

\* Whether the retry loop gives up after a failure of this attempt.
LastAttempt(a) == a = MAX_RETRY_ATTEMPTS - 1

\* The next iteration of the retry loop: attempt goes up by one.
RetryAttempt(a) == a + 1

\* A retry that goes straight to the write, past the check.
RetryPcNoCheck == "write"

\* Where a retry resumes: at the head of the retry loop, which is the check.
RetryPc == "acheck"

\* aadd_documents of the batch: it succeeds, or it raises; a write that
\* raises may have reached the store all the same (a timeout after commit).
WriteBatchWith(j, errors, commits) ==
    /\ tpc[j] = "write"
    /\ LET docs == BatchKeys(j, fi[j], bi[j], files[j][fi[j]])
           called == [hist[j] EXCEPT !.writes = @ + 1, !.checked = FALSE,
                                     !.wrote = TRUE]
       IN  \/ /\ store' = AddDocuments(store, docs)
              /\ AfterBatch(j)
              /\ hist' = [hist EXCEPT ![j] =
                     [called EXCEPT !.done = @ \cup {<<k[2], k[3]>> : k \in docs},
                                    !.writes = IF fi'[j] = fi[j] THEN @ ELSE 0,
                                    !.fails = IF fi'[j] = fi[j] THEN @ ELSE 0]]
              /\ UNCHANGED exc
           \/ \E e \in errors, committed \in commits :
                /\ store' = IF committed THEN AddDocuments(store, docs) ELSE store
                /\ IF LastAttempt(attempt[j])
                   THEN /\ Raise(j, e, "rollbackE")
                        /\ hist' = [hist EXCEPT ![j] =
                               [called EXCEPT !.exhausted = e,
                                              !.fails = @ + 1,
                                              !.allTimeout = @ /\ e = TimeoutError]]
                        /\ UNCHANGED attempt
                   ELSE /\ attempt' = [attempt EXCEPT ![j] = RetryAttempt(@)]
                        /\ tpc' = [tpc EXCEPT ![j] = RetryPc]
                        /\ hist' = [hist EXCEPT ![j] =
                               [called EXCEPT !.fails = @ + 1,
                                              !.allTimeout = @ /\ e = TimeoutError]]
                        /\ UNCHANGED exc
                /\ UNCHANGED <<fi, bi, processed, total>>
    /\ UNCHANGED <<call, kbVars, mproc, query, storeVars, jobs, now, files, workout, eout, revoked, cancelVars>>

WriteBatch(j) == WriteBatchWith(j, WriteErrors, BOOLEAN)

\* The metadata update after the file loop: a FAST read, the text metrics of
\* the store, the size, the request's parameters, the source types, and the
\* write of the file.  The task is then suspended at the log line that
\* follows the write.
Finalize(j) ==
    /\ tpc[j] = "finalize"
    /\ metadata_file' =
         OnDisk(IngestionMetadata(
                    GetMetadata(metadata_file, TRUE, uuids + 1, Here(store)).ret,
                    store, request[j], ProcessedFiles(files[j])))
    /\ uuids' = IF UsedNewId(metadata_file, TRUE, uuids + 1, Here(store))
                THEN uuids + 1 ELSE uuids
    /\ tpc' = [tpc EXCEPT ![j] = "completed"]
    /\ hist' = H(j, "saved", TRUE)
    /\ UNCHANGED <<call, request, mproc, query, storeVars, jobs, now, files, fi, bi, attempt, processed, total,
                   exc, workout, eout, store, revoked, cancelVars>>

\* The return after the log line "Completed ingestion": the success result.
ReturnSuccess(j) ==
    /\ tpc[j] = "completed"
    /\ workout' = [workout EXCEPT ![j] =
           [kind |-> "returned",
            val |-> [message |-> "Successfully ingested",
                     files_processed |-> processed[j],
                     chunks_created |-> total[j]]]]
    /\ tpc' = [tpc EXCEPT ![j] = "workret"]
    /\ UNCHANGED <<call, kbVars, mproc, query, storeVars, jobs, now, files, fi, bi, attempt, processed, total,
                   exc, eout, store, revoked, cancelVars, hist>>

\* except IngestionCancelledError: the rollback, then the "Job cancelled"
\* result; an error the rollback lets through replaces the result.
RollbackCancelledWith(j, outcomes) ==
    /\ tpc[j] = "rollbackC"
    /\ \E o \in outcomes :
        /\ store' = CleanupStore(store, j, o)
        /\ hist' = [hist EXCEPT ![j] =
               [@ EXCEPT !.rollbacks = @ + 1, !.rollbackOutcome = o,
                         !.removed = @ + (JobCount(store, j) - JobCount(store', j))]]
        /\ IF CleanupRaises(o) = "none"
           THEN /\ workout' = [workout EXCEPT ![j] =
                       [kind |-> "returned", val |-> [message |-> "Job cancelled"]]]
                /\ tpc' = [tpc EXCEPT ![j] = "workret"]
                /\ exc' = [exc EXCEPT ![j] = "none"]
           ELSE /\ workout' = [workout EXCEPT ![j] =
                       [kind |-> "raised", val |-> CleanupRaises(o)]]
                /\ Raise(j, CleanupRaises(o), "workraise")
    /\ UNCHANGED <<call, kbVars, mproc, query, storeVars, jobs, now, files, fi, bi, attempt, processed, total, eout,
                   revoked, cancelVars>>

RollbackCancelled(j) == RollbackCancelledWith(j, DeleteOutcomes)

\* except Exception: the rollback, then raise; an error the rollback lets
\* through is raised in place of the original one.
RollbackFailedWith(j, outcomes) ==
    /\ tpc[j] = "rollbackE"
    /\ \E o \in outcomes :
        /\ store' = CleanupStore(store, j, o)
        /\ hist' = [hist EXCEPT ![j] =
               [@ EXCEPT !.rollbacks = @ + 1, !.rollbackOutcome = o,
                         !.removed = @ + (JobCount(store, j) - JobCount(store', j))]]
        /\ LET e == IF CleanupRaises(o) = "none" THEN exc[j] ELSE CleanupRaises(o)
           IN  /\ workout' = [workout EXCEPT ![j] = [kind |-> "raised", val |-> e]]
               /\ Raise(j, e, "workraise")
    /\ UNCHANGED <<call, kbVars, mproc, query, storeVars, jobs, now, files, fi, bi, attempt, processed, total, eout,
                   revoked, cancelVars>>

RollbackFailed(j) == RollbackFailedWith(j, DeleteOutcomes)

\* The positions at which the task is suspended inside the wrapped function.
WorkPcs == {"embed", "check", "acheck", "write", "finalize", "completed",
            "rollbackC", "rollbackE"}

\* The task is cancelled while it is suspended: CancelledError is raised at
\* the await, no except clause of perform_ingestion catches it.  The user
\* tag is carried only by a cancellation that revoke_task asked for.
TaskCancelled(j, sig) ==
    /\ tpc[j] \in WorkPcs
    /\ ~hist[j].signalled
    /\ sig = UserCancelled => revoked[j]
    /\ workout' = [workout EXCEPT ![j] = [kind |-> "raised", val |-> sig]]
    /\ Raise(j, sig, "workraise")
    /\ hist' = [hist EXCEPT ![j] = [@ EXCEPT !.signalled = TRUE, !.checked = FALSE]]
    /\ UNCHANGED <<call, kbVars, mproc, query, storeVars, jobs, now, files, fi, bi, attempt, processed, total, eout,
                   store, revoked, cancelVars>>

\* ----------------------------------------------------- cancel_ingestion
\* The refused statuses as they would be with "timed_out" forgotten.
CancelRefusedNoTimedOut == {"completed", "failed", "cancelled"}

\* The statuses for which the endpoint refuses to cancel.
CancelRefused == {"completed", "failed", "cancelled", "timed_out"}

\* The request up to its first await after the job lookup: a FAST read of
\* the metadata for the id, then 404 when the
\* knowledge base has no job, 400 naming the status when the latest job is
\* in a refused status, otherwise the handler goes on to revoke the task.
CancelRequest ==
    /\ cpc = "idle"
    /\ cancelsLeft > 0
    /\ cancelsLeft' = cancelsLeft - 1
    /\ IF ~HasJob(jobs)
       THEN /\ resp' = [code |-> 404, detail |-> "No ingestion job found"]
            /\ UNCHANGED <<cpc, cjob>>
       ELSE LET job == LatestJob(jobs)
            IN  IF jobs[job].status \in CancelRefused
                THEN /\ resp' = [code |-> 400, detail |-> jobs[job].status]
                     /\ UNCHANGED <<cpc, cjob>>
                ELSE /\ cjob' = [id |-> job, revoked |-> FALSE]
                     /\ cpc' = "revoke"
                     /\ UNCHANGED resp
    /\ metadata_file' = AfterGetMetadata(metadata_file, TRUE, uuids + 1, Here(store))
    /\ uuids' = IF UsedNewId(metadata_file, TRUE, uuids + 1, Here(store))
                THEN uuids + 1 ELSE uuids
    /\ UNCHANGED <<call, request, mproc, query, storeVars, jobs, now, taskVars, store, revoked, hist>>

\* task_service.revoke_task(job.job_id): asks the scheduler to cancel the
\* task and tells whether it did.
RevokeTask(j, answer) ==
    /\ revoked' = [revoked EXCEPT ![j] = TRUE]
    /\ cjob' = [cjob EXCEPT !.revoked = answer]

CancelRevoke ==
    /\ cpc = "revoke"
    /\ \E answer \in BOOLEAN : RevokeTask(cjob.id, answer)
    /\ cpc' = "update"
    /\ UNCHANGED <<call, kbVars, mproc, query, storeVars, jobs, now, taskVars, store, resp, cancelsLeft, hist>>

\* The task stands before the pre-batch check with a batch already written.
BetweenBatches(j) == tpc[j] = "check" /\ (bi[j] > 0 \/ processed[j] > 0)

\* update_job_status(job.job_id, CANCELLED), with no finished timestamp.
CancelUpdate ==
    /\ cpc = "update"
    /\ jobs' = UpdateJobStatus(jobs, cjob.id, CANCELLED, FALSE, now)
    /\ now' = Tick(FALSE)
    /\ cpc' = "cleanup"
    /\ hist' = IF BetweenBatches(cjob.id) THEN H(cjob.id, "flagged", TRUE) ELSE hist
    /\ UNCHANGED <<call, kbVars, mproc, query, storeVars, taskVars, store, revoked, cjob, resp, cancelsLeft>>

\* cleanup_chroma_chunks_by_job for the job, then the message; an error the
\* cleanup lets through becomes the 500 response.
CancelCleanupWith(outcomes) ==
    /\ cpc = "cleanup"
    /\ \E o \in outcomes :
        /\ store' = CleanupStore(store, cjob.id, o)
        /\ hist' = H(cjob.id, "removed",
                     hist[cjob.id].removed
                       + (JobCount(store, cjob.id) - JobCount(store', cjob.id)))
        /\ resp' = IF CleanupRaises(o) # "none"
                   THEN [code |-> 500, detail |-> "Error cancelling ingestion."]
                   ELSE IF cjob.revoked
                   THEN [code |-> 200, detail |-> "cancelled successfully"]
                   ELSE [code |-> 200, detail |-> "already cancelled"]
    /\ cpc' = "idle"
    /\ UNCHANGED <<call, kbVars, mproc, query, storeVars, jobs, now, taskVars, revoked, cjob, cancelsLeft>>

CancelCleanup == CancelCleanupWith(DeleteOutcomes)

\* ------------------------------------------------------- specification
Next ==
    \/ \E fs \in FileLists : Ingest(fs)
    \/ \E j \in JobIds : ExecStart(j)
    \/ \E j \in JobIds : BuildEmbeddings(j)
    \/ \E j \in JobIds : PreBatchCheck(j)
    \/ \E j \in JobIds : AttemptCheck(j)
    \/ \E j \in JobIds : WriteBatch(j)
    \/ \E j \in JobIds : Finalize(j)
    \/ \E j \in JobIds : ReturnSuccess(j)
    \/ \E j \in JobIds : RollbackCancelled(j)
    \/ \E j \in JobIds : RollbackFailed(j)
    \/ \E j \in JobIds : ExecCompleted(j)
    \/ \E j \in JobIds : ExecFailed(j)
    \/ \E j \in JobIds, sig \in CancelSignals : TaskCancelled(j, sig)
    \/ CancelRequest
    \/ CancelRevoke
    \/ CancelUpdate
    \/ CancelCleanup

\* The system after one ingestion of a one-chunk file as job 1 has completed:
\* its row is COMPLETED and its record is in the store.
Init ==
    /\ jobs = [j \in JobIds |->
                 IF j = 1
                 THEN [exists |-> TRUE, status |-> COMPLETED, created |-> 1, finished |-> 2,
                       asset |-> KbAsset]
                 ELSE NoJob]
    /\ now = 2
    /\ tpc = [j \in JobIds |-> IF j = 1 THEN "done" ELSE "none"]
    /\ files = [j \in JobIds |-> IF j = 1 THEN <<1>> ELSE <<>>]
    /\ fi = [j \in JobIds |-> IF j = 1 THEN 2 ELSE 0]
    /\ bi = [j \in JobIds |-> 0]
    /\ attempt = [j \in JobIds |-> 0]
    /\ processed = [j \in JobIds |-> IF j = 1 THEN 1 ELSE 0]
    /\ total = [j \in JobIds |-> IF j = 1 THEN 1 ELSE 0]
    /\ exc = [j \in JobIds |-> "none"]
    /\ workout = [j \in JobIds |->
                    IF j = 1
                    THEN [kind |-> "returned",
                          val |-> [message |-> "Successfully ingested",
                                   files_processed |-> 1, chunks_created |-> 1]]
                    ELSE NoOutcome]
    /\ eout = workout
    /\ store = [k \in Keys |-> IF k = <<1, 1, 0>> THEN 1 ELSE 0]
    /\ revoked = [j \in JobIds |-> FALSE]
    /\ cpc = "idle"
    /\ cjob = [id |-> 0, revoked |-> FALSE]
    /\ resp = [code |-> 0, detail |-> "none"]
    /\ cancelsLeft = MaxCancels
    /\ hist = [j \in JobIds |-> IF j = 1
                 THEN [NoHist EXCEPT !.setStatus = COMPLETED, !.builds = 1,
                                     !.wrote = TRUE, !.saved = TRUE,
                                     !.done = {<<1, 0>>}]
                 ELSE NoHist]
    /\ call = NoCall
    /\ metadata_file =
         OnDisk(IngestionMetadata(
                    GetMetadata(AfterGetMetadata(Created, FALSE, KbId + 1,
                                                 Here([k \in Keys |-> 0])),
                                TRUE, KbId + 1, Here(store)).ret,
                    store, DefaultRequest(<<1>>), {1}))
    /\ uuids = KbId
    /\ request = [j \in JobIds |-> IF j = 1 THEN DefaultRequest(<<1>>) ELSE NoRequest]
    /\ mproc = [p \in Procs |-> NoProc]
    /\ query = NoQuery
    /\ NoHandles
    /\ kb_dirs = KbDirs

Spec == Init /\ [][Next]_vars

\* Two ingestions of the same knowledge base running side by side, from the
\* fresh system, with a store whose writes fail without trace and whose
\* deletes succeed.
FileListsTwo == { <<INGESTION_BATCH_SIZE + 1>> }

NextTwo ==
    \/ \E fs \in FileListsTwo : Ingest(fs)
    \/ \E j \in JobIds : ExecStart(j)
    \/ \E j \in JobIds : BuildEmbeddings(j)
    \/ \E j \in JobIds : PreBatchCheck(j)
    \/ \E j \in JobIds : AttemptCheck(j)
    \/ \E j \in JobIds : WriteBatchWith(j, {WriteError}, {FALSE})
    \/ \E j \in JobIds : Finalize(j)
    \/ \E j \in JobIds : ReturnSuccess(j)
    \/ \E j \in JobIds : RollbackCancelledWith(j, {"ok"})
    \/ \E j \in JobIds : RollbackFailedWith(j, {"ok"})
    \/ \E j \in JobIds : ExecCompleted(j)
    \/ \E j \in JobIds : ExecFailed(j)
    \/ CancelRequest
    \/ CancelRevoke
    \/ CancelUpdate
    \/ CancelCleanupWith({"ok"})

SpecTwo == Fresh /\ [][NextTwo]_vars

\* The ingestion with a job datastore that may be unavailable at any status
\* update of execute_with_status; the store's writes fail without trace and
\* its deletes succeed.
NextDb ==
    \/ \E fs \in FileLists : Ingest(fs)
    \/ \E j \in JobIds : ExecStartWith(j, DbOutcomes)
    \/ \E j \in JobIds : BuildEmbeddings(j)
    \/ \E j \in JobIds : PreBatchCheck(j)
    \/ \E j \in JobIds : AttemptCheck(j)
    \/ \E j \in JobIds : WriteBatchWith(j, {WriteError, TimeoutError}, {FALSE})
    \/ \E j \in JobIds : Finalize(j)
    \/ \E j \in JobIds : ReturnSuccess(j)
    \/ \E j \in JobIds : RollbackCancelledWith(j, {"ok"})
    \/ \E j \in JobIds : RollbackFailedWith(j, {"ok"})
    \/ \E j \in JobIds : ExecCompletedWith(j, DbOutcomes)
    \/ \E j \in JobIds : ExecFailedWith(j, DbOutcomes)
    \/ \E j \in JobIds, sig \in CancelSignals : TaskCancelled(j, sig)
    \/ CancelRequest
    \/ CancelRevoke
    \/ CancelUpdate
    \/ CancelCleanupWith({"ok"})

SpecDb == Init /\ [][NextDb]_vars

\* ------------------------------------ the knowledge base behind the pipeline
\* list_knowledge_bases and get_knowledge_base: a FULL read of the metadata,
\* by the server process (process 1).
ListKnowledgeBases ==
    LET r == GetMetadata(metadata_file, FALSE, uuids + 1, Here(store))
    IN /\ mproc' = [mproc EXCEPT ![1] =
                      [NoProc EXCEPT !.op = "get_metadata", !.fast = FALSE,
                                     !.saw = metadata_file.st,
                                     !.ret = r.ret, !.wrote = r.wrote]]
       /\ metadata_file' = AfterGetMetadata(metadata_file, FALSE, uuids + 1, Here(store))
       /\ uuids' = IF UsedNewId(metadata_file, FALSE, uuids + 1, Here(store))
                   THEN uuids + 1 ELSE uuids
       /\ UNCHANGED <<call, request, query, storeVars, jobs, now, taskVars, store, revoked,
                      cancelVars, hist>>

\* The requests of the ingestions: a blank file and a file of one chunk with
\* the form's defaults, and no file at all with parameters of its own.
RequestsKb ==
    { <<(<<0, 1>>),
        Request(DefaultChunkSize, DefaultChunkOverlap, DefaultSeparator,
                <<FileName("blank", "Md"), FileName("notes", "TXT")>>)>>,
      <<(<<>>),
        Request(DefaultChunkSize \div 2, 0, "\\n", <<>>)>> }

\* Two ingestions from the fresh system with metadata reads in between; the
\* store's writes and deletes succeed.
NextKb ==
    \/ \E fr \in RequestsKb : IngestWith(fr[1], fr[2])
    \/ \E j \in JobIds : ExecStart(j)
    \/ \E j \in JobIds : BuildEmbeddings(j)
    \/ \E j \in JobIds : PreBatchCheck(j)
    \/ \E j \in JobIds : AttemptCheck(j)
    \/ \E j \in JobIds : WriteBatchWith(j, {}, {FALSE})
    \/ \E j \in JobIds : Finalize(j)
    \/ \E j \in JobIds : ReturnSuccess(j)
    \/ \E j \in JobIds : RollbackCancelledWith(j, {"ok"})
    \/ \E j \in JobIds : RollbackFailedWith(j, {"ok"})
    \/ \E j \in JobIds : ExecCompleted(j)
    \/ \E j \in JobIds : ExecFailed(j)
    \/ CancelRequest
    \/ CancelRevoke
    \/ CancelUpdate
    \/ CancelCleanupWith({"ok"})
    \/ ListKnowledgeBases

SpecKb == Fresh /\ [][NextKb]_vars

\* --------------------------------- the metadata file under several processes
\* The worker processes of the server share the directory of the knowledge
\* base.  Path.write_text opens the file for writing, which empties it, and
\* then writes the text: between the two the file holds what json.loads
\* cannot decode.  What a process does between two awaits is one step of
\* that process, but the other process may run between the opening and the
\* writing.

\* How many ids uuid4 hands out at most.
MaxUuids == 2

\* What the detection may find in the directory.
\* What the detection may find in the directory: nothing, or the chroma
\* directory and a configuration file that names the model.
Findings ==
    {Surroundings(DirectorySize(store), Unknown, Unknown),
     Surroundings(DirectorySize(store), "Chroma", KbModel)}

\* write_text, first half: the file is opened and emptied, the text is
\* still to be written.
OpenForWriting(p, op, fast, saw, ret, doc) ==
    /\ metadata_file' = Undecodable
    /\ mproc' = [mproc EXCEPT ![p] =
                   [pc |-> "writing", op |-> op, fast |-> fast, saw |-> saw,
                    ret |-> ret, pending |-> doc, wrote |-> TRUE]]

\* get_metadata(kb_path, fast) by process p.
MetaRead(p, fast, env) ==
    /\ mproc[p].pc = "idle"
    /\ LET r == GetMetadata(metadata_file, fast, uuids + 1, env)
       IN /\ UsedNewId(metadata_file, fast, uuids + 1, env) => uuids < MaxUuids
          /\ uuids' = IF UsedNewId(metadata_file, fast, uuids + 1, env)
                      THEN uuids + 1 ELSE uuids
          /\ IF r.wrote
             THEN OpenForWriting(p, "get_metadata", fast, metadata_file.st, r.ret, r.ret)
             ELSE /\ mproc' = [mproc EXCEPT ![p] =
                                 [NoProc EXCEPT !.op = "get_metadata", !.fast = fast,
                                                !.saw = metadata_file.st,
                                                !.ret = r.ret]]
                  /\ UNCHANGED metadata_file
    /\ UNCHANGED <<call, request, query, storeVars, jobs, now, taskVars, store, revoked,
                   cancelVars, hist>>

\* write_text, second half: the text reaches the file.
MetaWriteEnd(p) ==
    /\ mproc[p].pc = "writing"
    /\ metadata_file' = OnDisk(mproc[p].pending)
    /\ mproc' = [mproc EXCEPT ![p] = [@ EXCEPT !.pc = "idle"]]
    /\ UNCHANGED <<call, uuids, request, query, storeVars, jobs, now, taskVars, store, revoked,
                   cancelVars, hist>>

\* The column_config of an ingest request.
ColumnConfigs == {<<"text">>}

\* The column_config update of the ingest endpoint by process p: when the
\* file exists it is read, the key is set and the file is written; a file
\* that does not decode is left alone.
ColumnConfigUpdate(p, cc) ==
    /\ mproc[p].pc = "idle"
    /\ metadata_file.st = "doc"
    /\ OpenForWriting(p, "column_config", FALSE, metadata_file.st, EmptyDoc,
                      [k \in DOMAIN metadata_file.doc \cup {"column_config"} |->
                         IF k = "column_config" THEN Some(cc) ELSE metadata_file.doc[k]])
    /\ UNCHANGED <<call, uuids, request, query, storeVars, jobs, now, taskVars, store, revoked,
                   cancelVars, hist>>

\* The requests without files whose ingestion ends in process p.
RequestsMeta == {Request(DefaultChunkSize \div 2, 0, "\\n", <<>>)}

\* The end of perform_ingestion in process p for a request without files:
\* the FAST read, the metrics of the store, the parameters, and the write.
IngestionWrite(p, r) ==
    /\ mproc[p].pc = "idle"
    /\ LET m == GetMetadata(metadata_file, TRUE, uuids + 1, Here(store))
       IN /\ UsedNewId(metadata_file, TRUE, uuids + 1, Here(store)) => uuids < MaxUuids
          /\ uuids' = IF UsedNewId(metadata_file, TRUE, uuids + 1, Here(store))
                      THEN uuids + 1 ELSE uuids
          /\ OpenForWriting(p, "perform_ingestion", TRUE, metadata_file.st, m.ret,
                            IngestionMetadata(m.ret, store, r, {}))
    /\ UNCHANGED <<call, request, query, storeVars, jobs, now, taskVars, store, revoked,
                   cancelVars, hist>>

NextMeta ==
    \/ \E p \in Procs, fast \in BOOLEAN, env \in Findings : MetaRead(p, fast, env)
    \/ \E p \in Procs : MetaWriteEnd(p)
    \/ \E p \in Procs, cc \in ColumnConfigs : ColumnConfigUpdate(p, cc)
    \/ \E p \in Procs, r \in RequestsMeta : IngestionWrite(p, r)

\* A knowledge base without records: one that create_knowledge_base has
\* just made, with a known or an unknown embedding model, or a directory
\* from before the metadata file existed.
InitMeta ==
    /\ jobs = [j \in JobIds |-> NoJob]
    /\ now = 0
    /\ tpc = [j \in JobIds |-> "none"]
    /\ files = [j \in JobIds |-> <<>>]
    /\ fi = [j \in JobIds |-> 0]
    /\ bi = [j \in JobIds |-> 0]
    /\ attempt = [j \in JobIds |-> 0]
    /\ processed = [j \in JobIds |-> 0]
    /\ total = [j \in JobIds |-> 0]
    /\ exc = [j \in JobIds |-> "none"]
    /\ workout = [j \in JobIds |-> NoOutcome]
    /\ eout = [j \in JobIds |-> NoOutcome]
    /\ store = [k \in Keys |-> 0]
    /\ revoked = [j \in JobIds |-> FALSE]
    /\ cpc = "idle"
    /\ cjob = [id |-> 0, revoked |-> FALSE]
    /\ resp = [code |-> 0, detail |-> "none"]
    /\ cancelsLeft = MaxCancels
    /\ hist = [j \in JobIds |-> NoHist]
    /\ call = NoCall
    /\ metadata_file \in {Created, OnDisk(CreatedDoc(KbId, Unknown, Unknown)), Missing}
    /\ uuids = IF metadata_file = Missing THEN 0 ELSE KbId
    /\ request = [j \in JobIds |-> NoRequest]
    /\ mproc = [p \in Procs |-> NoProc]
    /\ query = NoQuery
    /\ NoHandles
    /\ kb_dirs = KbDirs

SpecMeta == InitMeta /\ [][NextMeta]_vars

\* ------------------------------------------------------- the chunk listing
\* The order of the store's records: by job, file and chunk index.
KeyBefore(a, b) ==
    \/ a[1] < b[1]
    \/ a[1] = b[1] /\ a[2] < b[2]
    \/ a[1] = b[1] /\ a[2] = b[2] /\ a[3] < b[3]

\* The records of the store in its order, a record for every copy of a key.
RECURSIVE RecordsOf(_, _)
RecordsOf(st, S) ==
    IF S = {} THEN <<>>
    ELSE LET k == CHOOSE x \in S : \A y \in S \ {x} : KeyBefore(x, y)
         IN [i \in 1..st[k] |-> k] \o RecordsOf(st, S \ {k})

Records(st) == RecordsOf(st, {k \in DOMAIN st : st[k] > 0})

\* seq[offset : offset + limit] of Python.
Slice(seq, offset, limit) ==
    [i \in 1..(Min(Len(seq), offset + limit) - Min(Len(seq), offset)) |-> seq[offset + i]]

\* collection.get(limit=limit, offset=offset): the store's own pagination.
CollectionGet(st, limit, offset) == Slice(Records(st), offset, limit)

\* Whether the text holds the term as a substring.
Contains(text, term) ==
    \E i \in 1..(Len(text) - Len(term) + 1) :
        \A n \in 1..Len(term) : text[i + n - 1] = term[n]

\* collection.get(where_document={"$contains": term}): every record whose
\* text contains the term, in the store's order.
CollectionGetContains(st, term) ==
    SelectSeq(Records(st), LAMBDA k : Contains(Text(k), term))

\* str.strip(): the string without the whitespace at its ends.
RECURSIVE Strip(_)
Strip(s) ==
    IF s = <<>> THEN s
    ELSE IF Head(s) = " " THEN Strip(Tail(s))
    ELSE IF s[Len(s)] = " " THEN Strip(SubSeq(s, 1, Len(s) - 1))
    ELSE s

\* A search that uses the string as it was typed.
SearchTermRaw(search) == search

\* search_term = search.strip()
SearchTerm(search) == Strip(search)

\* An offset that counts pages from zero.
OffsetFromZero(page, limit) == page * limit

\* offset = (page - 1) * limit
Offset(page, limit) == (page - 1) * limit

\* The ChunkInfo of the records.
ChunkInfos(keys) ==
    [i \in 1..Len(keys) |->
        [id |-> keys[i], content |-> Text(keys[i]), char_count |-> Len(Text(keys[i]))]]

\* A page count that rounds down.
TotalPagesFloor(total_count, limit) == total_count \div limit

\* (total_count + limit - 1) // limit if total_count > 0 else 0
TotalPages(total_count, limit) ==
    IF total_count > 0 THEN (total_count + limit - 1) \div limit ELSE 0

\* get_knowledge_base_chunks: the response, and how many queries the
\* handler sent to the store.
GetChunks(st, has_data, page, limit, search) ==
    IF ~has_data
    THEN [page |-> page, limit |-> limit, search |-> search, has_data |-> has_data, chunks |-> <<>>,
          total |-> 0, total_pages |-> 0, queries |-> 0]
    ELSE IF SearchTerm(search) # <<>>
    THEN LET all_results == CollectionGetContains(st, SearchTerm(search))
         IN [page |-> page, limit |-> limit, search |-> search, has_data |-> has_data,
             chunks |-> ChunkInfos(Slice(all_results, Offset(page, limit), limit)),
             total |-> Len(all_results),
             total_pages |-> TotalPages(Len(all_results), limit),
             queries |-> 1]
    ELSE [page |-> page, limit |-> limit, search |-> search, has_data |-> has_data,
          chunks |-> ChunkInfos(CollectionGet(st, limit, Offset(page, limit))),
          total |-> Count(st),
          total_pages |-> TotalPages(Count(st), limit),
          queries |-> 2]

\* The pages, limits and search strings of the requests.
MaxPage == 3
MaxLimit == 3
Searches == {<<>>, <<" ">>, <<"a">>, <<" ", "b">>, <<"a", " ", "b">>, <<"c">>}

\* How many handles the handlers open at most.
MaxSessions == 3

\* The handler on the store as it is: the guard on the directory, then a
\* fresh handle (taken to open without error) and the queries.
ListChunks(page, limit, search) ==
    LET has_data == HasData(kb_dirs[KbPath])
        c == GetFreshChromaClient(identifier_to_system, KbPath, sessions + 1, "ok")
    IN /\ has_data => sessions < MaxSessions
       /\ query' = GetChunks(store, has_data, page, limit, search)
       /\ identifier_to_system' = IF has_data THEN c.registry ELSE identifier_to_system
       /\ sessions' = IF has_data THEN sessions + 1 ELSE sessions
       /\ storage' = [NoStorage EXCEPT
                         !.name = "get_knowledge_base_chunks",
                         !.paths = <<KbPath>>,
                         !.client = IF has_data THEN c.client ELSE NoSystem,
                         !.before = identifier_to_system]
       /\ UNCHANGED <<call, kbVars, mproc, jobs, now, taskVars, store, revoked,
                      cancelVars, hist, kb_dirs>>

NextChunks ==
    \E page \in 1..MaxPage, limit \in 1..MaxLimit, search \in Searches :
        ListChunks(page, limit, search)

\* How often a retried write may have committed a batch.
MaxCopies == 2

\* The store after job 1 ingested a file of n1 chunks, its batches committed
\* copies[b] times, and job 2 a file of n2 chunks; without records the
\* directory may hold no vector data yet.
StoreAfter(n1, copies, n2) ==
    [k \in Keys |->
        IF k[2] = 1 /\ k[1] = 1 /\ k[3] < n1 THEN copies[k[3] \div INGESTION_BATCH_SIZE]
        ELSE IF k[2] = 1 /\ k[1] = 2 /\ k[3] < n2 THEN 1
        ELSE 0]

InitChunks ==
    /\ jobs = [j \in JobIds |-> NoJob]
    /\ now = 0
    /\ tpc = [j \in JobIds |-> "none"]
    /\ files = [j \in JobIds |-> <<>>]
    /\ fi = [j \in JobIds |-> 0]
    /\ bi = [j \in JobIds |-> 0]
    /\ attempt = [j \in JobIds |-> 0]
    /\ processed = [j \in JobIds |-> 0]
    /\ total = [j \in JobIds |-> 0]
    /\ exc = [j \in JobIds |-> "none"]
    /\ workout = [j \in JobIds |-> NoOutcome]
    /\ eout = [j \in JobIds |-> NoOutcome]
    /\ store \in {StoreAfter(n1, copies, n2) :
                    n1 \in 0..(INGESTION_BATCH_SIZE + 1),
                    copies \in [0..1 -> 1..MaxCopies],
                    n2 \in 0..1}
    /\ revoked = [j \in JobIds |-> FALSE]
    /\ cpc = "idle"
    /\ cjob = [id |-> 0, revoked |-> FALSE]
    /\ resp = [code |-> 0, detail |-> "none"]
    /\ cancelsLeft = MaxCancels
    /\ hist = [j \in JobIds |-> NoHist]
    /\ call = NoCall
    /\ metadata_file = Created
    /\ uuids = KbId
    /\ request = [j \in JobIds |-> NoRequest]
    /\ mproc = [p \in Procs |-> NoProc]
    /\ query = NoQuery
    /\ NoHandles
    /\ kb_dirs \in {KbDirs, [KbDirs EXCEPT ![KbPath] = EmptyDir]}
    /\ Count(store) > 0 => kb_dirs[KbPath].has_data

SpecChunks == InitChunks /\ [][NextChunks]_vars

\* ------------------------------------------------ the storage of knowledge bases
\* A pipeline or a cleanup opens the storage of an existing knowledge base
\* with get_fresh_chroma_client; a handle that opens leaves the vector data
\* in the directory.
OpenStorage(path, outcome) ==
    /\ kb_dirs[path].exists
    /\ sessions < MaxSessions
    /\ LET c == GetFreshChromaClient(identifier_to_system, path, sessions + 1, outcome)
       IN /\ identifier_to_system' = c.registry
          /\ sessions' = sessions + 1
          /\ kb_dirs' = IF c.raised = "none"
                        THEN [kb_dirs EXCEPT ![path] = DataDir] ELSE kb_dirs
          /\ storage' = [NoStorage EXCEPT
                            !.name = "get_fresh_chroma_client",
                            !.paths = <<path>>,
                            !.client = c.client,
                            !.raised = c.raised,
                            !.before = identifier_to_system]
    /\ UNCHANGED <<call, kbVars, mproc, query, jobs, now, taskVars, store, revoked,
                   cancelVars, hist>>

\* shutil.rmtree(kb_path): the directory is gone, and with the directory of
\* the first knowledge base its records and its metadata file.
Rmtree(dirs, path) == [dirs EXCEPT ![path] = NoDir]
StoreWithout(st, dirs) == IF dirs[KbPath].exists THEN st ELSE [k \in Keys |-> 0]
FileWithout(file, dirs) == IF dirs[KbPath].exists THEN file ELSE Missing

\* delete_knowledge_base: 404 when the directory does not exist; otherwise
\* teardown_storage and then rmtree; an error that leaves teardown_storage
\* is caught by the handler, which answers 500.
DeleteKnowledgeBase(path, open, drop) ==
    /\ sessions < MaxSessions
    /\ IF ~kb_dirs[path].exists
       THEN /\ storage' = [NoStorage EXCEPT
                              !.name = "delete_knowledge_base",
                              !.paths = <<path>>, !.code = 404,
                              !.before = identifier_to_system]
            /\ UNCHANGED <<identifier_to_system, sessions, kb_dirs, store, metadata_file>>
       ELSE LET t == TeardownStorage(identifier_to_system, path, HasData(kb_dirs[path]),
                                     sessions + 1, open, drop)
                dirs == IF t.raised = "none" THEN Rmtree(kb_dirs, path) ELSE kb_dirs
            IN /\ identifier_to_system' = t.registry
               /\ sessions' = IF t.opened THEN sessions + 1 ELSE sessions
               /\ kb_dirs' = dirs
               /\ store' = StoreWithout(store, dirs)
               /\ metadata_file' = FileWithout(metadata_file, dirs)
               /\ storage' = [NoStorage EXCEPT
                                 !.name = "delete_knowledge_base",
                                 !.paths = <<path>>,
                                 !.raised = t.raised,
                                 !.code = IF t.raised = "none" THEN 200 ELSE 500,
                                 !.found = {path},
                                 !.removed = IF t.raised = "none" THEN {path} ELSE {},
                                 !.before = identifier_to_system]
    /\ UNCHANGED <<call, uuids, request, mproc, query, jobs, now, taskVars, revoked,
                   cancelVars, hist>>

\* The loop of delete_knowledge_bases_bulk from name i on: a name without a
\* directory is noted as not found; for the others teardown_storage and then
\* rmtree.  Only OSError is caught inside the loop, so an error that leaves
\* teardown_storage ends the loop.
RECURSIVE BulkLoop(_, _, _, _)
BulkLoop(kb_names, opens, i, s) ==
    IF i > Len(kb_names) \/ s.raised # "none" THEN s
    ELSE LET path == kb_names[i]
         IN IF ~s.dirs[path].exists
            THEN BulkLoop(kb_names, opens, i + 1,
                          [s EXCEPT !.not_found = @ \cup {path}])
            ELSE LET t == TeardownStorage(s.registry, path, HasData(s.dirs[path]),
                                          s.sessions + 1, opens[i], "ok")
                 IN BulkLoop(kb_names, opens, i + 1,
                       [s EXCEPT
                          !.registry = t.registry,
                          !.sessions = IF t.opened THEN @ + 1 ELSE @,
                          !.raised = t.raised,
                          !.dirs = IF t.raised = "none" THEN Rmtree(@, path) ELSE @,
                          !.deleted = IF t.raised = "none" THEN @ \cup {path} ELSE @])

\* The lists of names of the bulk requests.
BulkRequests == {<<KbPath, OtherPath>>, <<OtherPath, KbPath>>}

\* delete_knowledge_bases_bulk: the loop, then 500 when an error left it,
\* 404 when nothing was deleted and a name was not found, otherwise 200.
DeleteKnowledgeBasesBulk(kb_names, opens) ==
    /\ sessions + Len(kb_names) <= MaxSessions
    /\ LET s == BulkLoop(kb_names, opens, 1,
                         [registry |-> identifier_to_system, sessions |-> sessions,
                          dirs |-> kb_dirs, raised |-> "none", deleted |-> {},
                          not_found |-> {}])
       IN /\ identifier_to_system' = s.registry
          /\ sessions' = s.sessions
          /\ kb_dirs' = s.dirs
          /\ store' = StoreWithout(store, s.dirs)
          /\ metadata_file' = FileWithout(metadata_file, s.dirs)
          /\ storage' = [NoStorage EXCEPT
                            !.name = "delete_knowledge_bases_bulk",
                            !.paths = kb_names,
                            !.raised = s.raised,
                            !.code = IF s.raised # "none" THEN 500
                                     ELSE IF s.not_found # {} /\ s.deleted = {} THEN 404
                                     ELSE 200,
                            !.found = {kb_names[n] : n \in {m \in 1..Len(kb_names) :
                                                              kb_dirs[kb_names[m]].exists}},
                            !.removed = s.deleted,
                            !.before = identifier_to_system]
    /\ UNCHANGED <<call, uuids, request, mproc, query, jobs, now, taskVars, revoked,
                   cancelVars, hist>>

NextStore ==
    \/ \E path \in Paths, outcome \in OpenOutcomes : OpenStorage(path, outcome)
    \/ \E path \in Paths, open \in OpenOutcomes, drop \in DeleteOutcomes :
          DeleteKnowledgeBase(path, open, drop)
    \/ \E kb_names \in BulkRequests :
          \E opens \in [1..Len(kb_names) -> OpenOutcomes] :
             DeleteKnowledgeBasesBulk(kb_names, opens)

\* Two knowledge bases, each absent, created without vector data (the
\* initial setup failed) or with it; the first holds one record when it has
\* vector data.
InitStore ==
    /\ jobs = [j \in JobIds |-> NoJob]
    /\ now = 0
    /\ tpc = [j \in JobIds |-> "none"]
    /\ files = [j \in JobIds |-> <<>>]
    /\ fi = [j \in JobIds |-> 0]
    /\ bi = [j \in JobIds |-> 0]
    /\ attempt = [j \in JobIds |-> 0]
    /\ processed = [j \in JobIds |-> 0]
    /\ total = [j \in JobIds |-> 0]
    /\ exc = [j \in JobIds |-> "none"]
    /\ workout = [j \in JobIds |-> NoOutcome]
    /\ eout = [j \in JobIds |-> NoOutcome]
    /\ kb_dirs \in [Paths -> {NoDir, EmptyDir, DataDir}]
    /\ store = [k \in Keys |-> IF kb_dirs[KbPath].has_data /\ k = <<1, 1, 0>> THEN 1 ELSE 0]
    /\ revoked = [j \in JobIds |-> FALSE]
    /\ cpc = "idle"
    /\ cjob = [id |-> 0, revoked |-> FALSE]
    /\ resp = [code |-> 0, detail |-> "none"]
    /\ cancelsLeft = MaxCancels
    /\ hist = [j \in JobIds |-> NoHist]
    /\ call = NoCall
    /\ metadata_file = IF kb_dirs[KbPath].exists THEN Created ELSE Missing
    /\ uuids = KbId
    /\ request = [j \in JobIds |-> NoRequest]
    /\ mproc = [p \in Procs |-> NoProc]
    /\ query = NoQuery
    /\ NoHandles

SpecStore == InitStore /\ [][NextStore]_vars

\* ------------------------------------------- direct calls of the JobService
\* A reading of datetime.now: the clock has advanced since the last reading
\* or it has not (0 stands for "no timestamp").
ClockReadings == {t \in {now, now + 1} : t > 0}

\* The record of a call that is being made.
Called(op) == [NoCall EXCEPT !.op = op, !.n = call.n + 1, !.rows = call.rows]

\* create_job(job_id, ..., asset_id).
ApiCreateJob(j, a) ==
    /\ call.n < MaxCalls
    /\ \E t \in ClockReadings :
        /\ jobs' = CreateJob(jobs, j, a, t)
        /\ now' = t
        /\ call' = [Called("create_job") EXCEPT
                      !.job = j,
                      !.raised = CreateJobRaises(jobs, j),
                      !.rows = [@ EXCEPT ![j] =
                                  IF CreateJobRaises(jobs, j) = "none" THEN @ + 1 ELSE @]]
    /\ UNCHANGED <<kbVars, mproc, query, storeVars, taskVars, store, revoked, cancelVars, hist>>

\* update_job_status(job_id, status, finished_timestamp=fin): the updated
\* job is returned, or None when there is no such job.
ApiUpdateJobStatus(j, status, fin) ==
    /\ call.n < MaxCalls
    /\ \E t \in ClockReadings :
        /\ jobs' = UpdateJobStatus(jobs, j, status, fin, t)
        /\ now' = IF jobs[j].exists /\ fin THEN t ELSE now
        /\ call' = [Called("update_job_status") EXCEPT
                      !.job = j, !.status = status, !.fin = fin,
                      !.result = IF jobs[j].exists THEN {j} ELSE {}]
    /\ UNCHANGED <<kbVars, mproc, query, storeVars, taskVars, store, revoked, cancelVars, hist>>

\* The rows the select of get_latest_jobs_by_asset_ids returns: those whose
\* asset_id is one of the ids asked for.
Matching(js, req) == {j \in DOMAIN js : js[j].exists /\ js[j].asset \in req}

\* The orders in which a set of rows can come.
Orders(S) ==
    {seq \in [1..Cardinality(S) -> S] :
        \A i, k \in 1..Cardinality(S) : i # k => seq[i] # seq[k]}

\* order_by(created_timestamp) ascending.
SortedAsc(js, seq) ==
    \A i, k \in DOMAIN seq : i < k => js[seq[i]].created <= js[seq[k]].created

\* order_by(col(Job.created_timestamp).desc()); rows with the same
\* timestamp come in any order.
SortedDesc(js, seq) ==
    \A i, k \in DOMAIN seq : i < k => js[seq[i]].created >= js[seq[k]].created

\* The loop over all_jobs from row i on: a row is kept when its asset_id is
\* set and not yet a key of latest_jobs (a set of <<asset_id, job>> pairs).
RECURSIVE FirstPerAsset(_, _, _, _)
FirstPerAsset(js, seq, i, latest_jobs) ==
    IF i > Len(seq) THEN latest_jobs
    ELSE LET a == js[seq[i]].asset
         IN  IF a # NoAsset /\ ~\E e \in latest_jobs : e[1] = a
             THEN FirstPerAsset(js, seq, i + 1, latest_jobs \cup {<<a, seq[i]>>})
             ELSE FirstPerAsset(js, seq, i + 1, latest_jobs)

\* crud.get_latest_jobs_by_asset_ids: the maps it can return.
GetLatestJobsByAssetIds(js, req) ==
    IF req = {} THEN {{}}
    ELSE {FirstPerAsset(js, seq, 1, {}) :
             seq \in {o \in Orders(Matching(js, req)) : SortedDesc(js, o)}}

\* get_latest_jobs_by_asset_ids(asset_ids).
ApiGetLatest(req) ==
    /\ call.n < MaxCalls
    /\ \E m \in GetLatestJobsByAssetIds(jobs, req) :
        call' = [Called("get_latest_jobs_by_asset_ids") EXCEPT !.req = req, !.result = m]
    /\ UNCHANGED <<kbVars, mproc, query, storeVars, jobs, now, taskVars, store, revoked, cancelVars, hist>>

\* The statuses the direct calls of update_job_status set.
ApiStatuses == {IN_PROGRESS, COMPLETED}

NextJobs ==
    \/ \E j \in RowIds, a \in AssetIds : ApiCreateJob(j, a)
    \/ \E j \in RowIds, status \in ApiStatuses, fin \in BOOLEAN :
          ApiUpdateJobStatus(j, status, fin)
    \/ \E req \in SUBSET RequestIds : ApiGetLatest(req)

\* The JobService over an empty job table, no ingestion running.
InitJobs ==
    /\ jobs = [j \in RowIds |-> NoJob]
    /\ now = 0
    /\ tpc = [j \in JobIds |-> "none"]
    /\ files = [j \in JobIds |-> <<>>]
    /\ fi = [j \in JobIds |-> 0]
    /\ bi = [j \in JobIds |-> 0]
    /\ attempt = [j \in JobIds |-> 0]
    /\ processed = [j \in JobIds |-> 0]
    /\ total = [j \in JobIds |-> 0]
    /\ exc = [j \in JobIds |-> "none"]
    /\ workout = [j \in JobIds |-> NoOutcome]
    /\ eout = [j \in JobIds |-> NoOutcome]
    /\ store = [k \in Keys |-> 0]
    /\ revoked = [j \in JobIds |-> FALSE]
    /\ cpc = "idle"
    /\ cjob = [id |-> 0, revoked |-> FALSE]
    /\ resp = [code |-> 0, detail |-> "none"]
    /\ cancelsLeft = MaxCancels
    /\ hist = [j \in JobIds |-> NoHist]
    /\ call = NoCall
    /\ metadata_file = Created
    /\ uuids = KbId
    /\ request = [j \in JobIds |-> NoRequest]
    /\ mproc = [p \in Procs |-> NoProc]
    /\ query = NoQuery
    /\ NoHandles
    /\ kb_dirs = KbDirs

SpecJobs == InitJobs /\ [][NextJobs]_vars

TypeOK ==
    /\ \A j \in JobIds : jobs[j].status \in JobStatus
    /\ \A k \in Keys : store[k] \in 0..MAX_RETRY_ATTEMPTS
    /\ cpc \in {"idle", "revoke", "update", "cleanup"}

\* ================================================================ claims
Stamped(j) == jobs'[j].finished = now' /\ now' = now + 1

\* C1: in every reachable state each job has its finished_timestamp set
\* if and only if its status is COMPLETED, FAILED, CANCELLED or TIMED_OUT.
C1_FinishedIffTerminal ==
    \A j \in JobIds :
        jobs[j].exists => (jobs[j].finished # 0 <=> jobs[j].status \in Terminal)

\* C2: once a job's status is terminal, no step changes it.
C2_TerminalIsFinal ==
    [][\A j \in JobIds :
          (jobs[j].exists /\ jobs[j].status \in Terminal)
              => jobs'[j].status = jobs[j].status]_vars

\* C3: a cancel request that finds the latest job of the knowledge base in a
\* terminal status answers with an error naming that status and changes
\* nothing: the job table, the revoked tasks and the store stay as they are and
\* the handler ends there (no delete is issued).
C3_CancelOfTerminalRejected ==
    [][(/\ cpc = "idle"
        /\ cancelsLeft' = cancelsLeft - 1
        /\ HasJob(jobs)
        /\ jobs[LatestJob(jobs)].status \in Terminal)
       => (/\ resp' = [code |-> 400, detail |-> jobs[LatestJob(jobs)].status]
           /\ jobs' = jobs
           /\ revoked' = revoked
           /\ store' = store
           /\ cpc' = "idle")]_vars

\* C3 witness: a cancel request was refused for a job this run drove to
\* TIMED_OUT.
C3_Witness ==
    /\ resp = [code |-> 400, detail |-> TIMED_OUT]
    /\ jobs[2].status = TIMED_OUT
    /\ cpc = "idle"

C6_LifecycleOnCancel ==
    [][\A j \in JobIds :
          (tpc[j] = "workraise" /\ tpc'[j] # "workraise" /\ exc[j] \in CancelSignals)
              => (/\ tpc'[j] = "done"
                  /\ jobs'[j].status = (IF exc[j] = UserCancelled THEN CANCELLED ELSE FAILED)
                  /\ Stamped(j)
                  /\ eout'[j] = [kind |-> "raised", val |-> exc[j]])]_vars

\* C6 witness: the row already said CANCELLED (the cancel request had written
\* it and finished) when an untagged cancellation ended the job FAILED.
C6_Witness ==
    /\ tpc[2] = "done"
    /\ eout[2] = [kind |-> "raised", val |-> SystemCancelled]
    /\ jobs[2].status = FAILED
    /\ revoked[2]
    /\ cpc = "idle"
    /\ resp.code = 200
    /\ cancelsLeft = MaxCancels - 1

Raised(e) == [kind |-> "raised", val |-> e]
Ended(j) == tpc[j] \in {"workret", "workraise", "done"}

\* C7: if every attempt of a batch timed out (and the task was not
\* cancelled), the rollback ran, the timeout is what perform_ingestion and
\* execute_with_status raise, and the status execute_with_status sets is
\* TIMED_OUT.
C7_TimeoutEndsTimedOut ==
    \A j \in JobIds :
        (/\ tpc[j] = "done"
         /\ hist[j].exhausted = TimeoutError
         /\ hist[j].allTimeout
         /\ ~hist[j].signalled)
        => (/\ hist[j].rollbacks = 1
            /\ workout[j] = Raised(TimeoutError)
            /\ eout[j] = Raised(TimeoutError)
            /\ hist[j].setStatus = TIMED_OUT)

FromHere(j) ==
    { k \in Keys : k[1] = j /\ (k[2] > fi[j] \/ (k[2] = fi[j] /\ k[3] >= bi[j])) }

\* C9: if the status became CANCELLED after a batch was written and before
\* the pre-batch check of the next one (and the task itself was not
\* cancelled), no record of that next batch or of a later one is in the store,
\* and perform_ingestion ends by returning the "Job cancelled" result.
C9_CancelBetweenBatches ==
    \A j \in JobIds :
        (hist[j].flagged /\ ~hist[j].signalled)
            => (/\ \A k \in FromHere(j) : store[k] = 0
                /\ Ended(j) =>
                     workout[j] = [kind |-> "returned",
                                   val |-> [message |-> "Job cancelled"]])

\* The part of C9 about the store alone.
C9_NoLaterBatchWritten ==
    \A j \in JobIds : hist[j].flagged => \A k \in FromHere(j) : store[k] = 0

\* The step is a rollback for job j: by its own task, or by the cancel request.
RollbackActs(j) ==
    \/ tpc[j] \in {"rollbackC", "rollbackE"} /\ tpc'[j] = "workret"
    \/ tpc[j] \in {"rollbackC", "rollbackE"} /\ tpc'[j] = "workraise"
         /\ exc'[j] \notin CancelSignals
    \/ cpc = "cleanup" /\ cjob.id = j /\ cpc' = "idle"

\* C10: a rollback for job j leaves every record of every other job in the
\* store exactly as it was, and no other step removes a record.
C10_RollbackTouchesOnlyItsJob ==
    [][\A j \in JobIds :
          /\ RollbackActs(j) => \A k \in Keys : k[1] # j => store'[k] = store[k]
          /\ (\E k \in Keys : k[1] = j /\ store'[k] < store[k]) => RollbackActs(j)]_vars

\* C10 witness: the rollback of job 1 removed records while job 2 is still
\* ingesting into the same knowledge base and has its records in the store.
C10_Witness ==
    /\ hist[1].removed > 0
    /\ JobCount(store, 1) = 0
    /\ tpc[2] \in {"check", "acheck", "write"}
    /\ JobCount(store, 2) > 0

\* The result perform_ingestion returns after a cancellation it observed.
JobCancelled == [kind |-> "returned", val |-> [message |-> "Job cancelled"]]

\* C11: whenever perform_ingestion ends with the "Job cancelled" result or
\* with an exception (the cancellation of the task itself left aside), the
\* rollback has run for the job by then, and when the exception that left the
\* try block was not the cancellation, that same exception is what
\* perform_ingestion raises.
C11_RollbackThenOriginalError ==
    [][\A j \in JobIds :
          (/\ tpc[j] \in WorkPcs
           /\ tpc'[j] \in {"workret", "workraise"}
           /\ ~hist'[j].signalled
           /\ (workout'[j].kind = "raised" \/ workout'[j] = JobCancelled))
          => (/\ hist'[j].rollbacks = 1
              /\ exc[j] # IngestionCancelledError => workout'[j] = Raised(exc[j]))]_vars

\* The step is a call of aadd_documents by task j that raised / that returned.
WriteFailed(j) == hist'[j].fails = hist[j].fails + 1
WriteSucceeded(j) == hist'[j].done # hist[j].done

WriteAttempt(j) == WriteFailed(j) \/ WriteSucceeded(j)

\* The step is a status check of task j that read CANCELLED.
ReadCancelled(j) == ~hist[j].sawCancel /\ hist'[j].sawCancel

\* C13: every call of aadd_documents, the first of a batch and each retry,
\* is made by a task whose last step was a status check that did not read
\* CANCELLED.  A check that reads CANCELLED raises IngestionCancelledError
\* out of both loops to the handler that rolls back: the attempt counter is
\* not advanced, the error is not counted as a write failure, and the task
\* makes no call of aadd_documents afterwards.
C13_CheckBeforeEveryWrite ==
    [][\A j \in JobIds :
          /\ WriteAttempt(j) => (hist[j].checked /\ ~hist[j].sawCancel)
          /\ (~hist[j].checked /\ hist'[j].checked)
                => (tpc[j] = "acheck" /\ ~IsJobCancelled(jobs, j))
          /\ ReadCancelled(j)
                => (/\ tpc[j] \in {"check", "acheck"}
                    /\ IsJobCancelled(jobs, j)
                    /\ tpc'[j] = "rollbackC"
                    /\ exc'[j] = IngestionCancelledError
                    /\ attempt'[j] = attempt[j]
                    /\ hist'[j].fails = hist[j].fails
                    /\ hist'[j].writes = hist[j].writes)
          /\ hist[j].sawCancel
                => (~WriteAttempt(j) /\ tpc'[j] \notin {"check", "acheck", "write"})]_vars

\* C13 witness: the first attempt of a batch failed, the status became
\* CANCELLED, and the check before the retry read it: the batch was called
\* once and the task is in the rollback.
C13_Witness ==
    /\ tpc[2] = "rollbackC"
    /\ hist[2].sawCancel
    /\ hist[2].writes = 1
    /\ hist[2].fails = 1
    /\ attempt[2] = 1
    /\ exc[2] = IngestionCancelledError

\* The files of a request that are not empty, and the chunks they hold.
NonEmpty(fs) == {f \in 1..Len(fs) : fs[f] > 0}
RECURSIVE SumChunks(_, _)
SumChunks(fs, k) == IF k > Len(fs) THEN 0 ELSE fs[k] + SumChunks(fs, k + 1)

\* C14: a file that is empty or whitespace-only is never the file of a
\* status check or of a store write, no record of it is ever stored and no
\* chunk of it is counted as written; when perform_ingestion returns its
\* success result, files_processed is the number of non-empty files and
\* chunks_created the number of their chunks, so the empty file adds nothing
\* and the files beside it are all ingested.
C14_EmptyFileSkipped ==
    \A j \in JobIds :
        /\ tpc[j] \in {"check", "acheck", "write"} => files[j][fi[j]] > 0
        /\ \A k \in Keys :
              (k[1] = j /\ k[2] <= Len(files[j]) /\ files[j][k[2]] = 0) => store[k] = 0
        /\ \A d \in hist[j].done : files[j][d[1]] > 0
        /\ (workout[j].kind = "returned" /\ workout[j] # JobCancelled)
              => (/\ workout[j].val.message = "Successfully ingested"
                  /\ workout[j].val.files_processed = Cardinality(NonEmpty(files[j]))
                  /\ workout[j].val.chunks_created = SumChunks(files[j], 1)
                  /\ hist[j].done =
                       {<<f, c>> \in FileIdx \X ChunkIdx :
                            f <= Len(files[j]) /\ c < files[j][f]})

\* C14 witness: a request of an empty file and a file of one batch ended with
\* the success result counting one file, and the record of the second file
\* is in the store.
C14_Witness ==
    /\ files[2] = <<0, INGESTION_BATCH_SIZE>>
    /\ tpc[2] = "done"
    /\ eout[2].kind = "returned"
    /\ eout[2].val.message = "Successfully ingested"
    /\ eout[2].val.files_processed = 1
    /\ eout[2].val.chunks_created = INGESTION_BATCH_SIZE
    /\ store[<<2, 2, 0>>] > 0
    /\ jobs[2].status = COMPLETED

\* The chunk indices of file f whose write by task j has returned.
DoneOf(j, f) == {c \in ChunkIdx : <<f, c>> \in hist[j].done}

\* The batches of the files of task j: file and start index.
BatchesOf(j) ==
    {b \in FileIdx \X ChunkIdx :
        /\ b[1] <= Len(files[j])
        /\ b[2] < files[j][b[1]]
        /\ b[2] % INGESTION_BATCH_SIZE = 0}

\* Every batch of task j is in the store with all its records or with none.
WholeBatches(j) ==
    \A b \in BatchesOf(j) :
        LET ks == BatchKeys(j, b[1], b[2], files[j][b[1]])
        IN  (\A k \in ks : store[k] > 0) \/ (\A k \in ks : store[k] = 0)

\* C15: while a task is at a batch of a file, the chunks of that file whose
\* write has returned are exactly those below the start of the batch; a
\* write that returns adds one record for each chunk of the batch at hand,
\* in one step, and nothing else; when a file is counted as processed the
\* chunks written for it are exactly 0 .. total_chunks - 1.  A check reads
\* CANCELLED only between two calls of the write, never inside one, and from
\* then on each batch of the job is in the store whole or not at all.
C15_BatchesInOrder ==
    [][\A j \in JobIds :
          /\ tpc'[j] \in {"check", "acheck", "write"}
                => DoneOf(j, fi[j])' = 0 .. (bi'[j] - 1)
          /\ WriteSucceeded(j)
                => LET ks == BatchKeys(j, fi[j], bi[j], files[j][fi[j]])
                   IN  /\ hist'[j].done = hist[j].done \cup {<<k[2], k[3]>> : k \in ks}
                       /\ \A k \in Keys :
                             store'[k] = IF k \in ks THEN store[k] + 1 ELSE store[k]
                       /\ \A k \in ks : k[3] >= bi[j] /\ <<k[2], k[3]>> \notin hist[j].done
          /\ processed'[j] = processed[j] + 1
                => (/\ WriteSucceeded(j)
                    /\ {c \in ChunkIdx : <<fi[j], c>> \in hist'[j].done}
                         = 0 .. (files[j][fi[j]] - 1))
          /\ ReadCancelled(j) => (store' = store /\ tpc[j] # "write")
          /\ hist'[j].sawCancel => WholeBatches(j)']_vars

\* C15 witness: a file of one full batch was written and counted, and the
\* check before the first batch of the next file read CANCELLED: the batch of
\* the first file is in the store with all its records.
C15_Witness ==
    /\ files[2] = <<INGESTION_BATCH_SIZE, INGESTION_BATCH_SIZE>>
    /\ tpc[2] = "rollbackC"
    /\ hist[2].sawCancel
    /\ fi[2] = 2
    /\ processed[2] = 1
    /\ DoneOf(2, 1) = 0 .. (INGESTION_BATCH_SIZE - 1)
    /\ \A c \in 0 .. (INGESTION_BATCH_SIZE - 1) : store[<<2, 1, c>>] = 1

C17_UpdateFailureIsLoud ==
    \A j \in JobIds :
        tpc[j] = "done"
            => (/\ hist[j].dbDown => eout[j].kind = "raised"
                /\ eout[j].kind = "returned"
                      => (~hist[j].dbDown /\ hist[j].setStatus = COMPLETED))

\* C17 witness: the pipeline returned its success result, the COMPLETED
\* update met an unavailable datastore: the row still says IN_PROGRESS and
\* execute_with_status raised the datastore's error.
C17_Witness ==
    /\ tpc[2] = "done"
    /\ hist[2].dbDown
    /\ workout[2].kind = "returned"
    /\ workout[2].val.message = "Successfully ingested"
    /\ jobs[2].status = IN_PROGRESS
    /\ jobs[2].finished = 0
    /\ eout[2] = Raised(DbError)

\* C18: the map get_latest_jobs_by_asset_ids returns has as keys exactly the
\* asset ids asked for that have at least one job, one job per key; the job
\* of a key belongs to that asset and no job of the asset has a greater
\* created_timestamp; an empty request gives the empty map.
C18_LatestJobPerAsset ==
    call.op = "get_latest_jobs_by_asset_ids"
        => LET latest_jobs == call.result
               JobsOf(a) == {j \in RowIds : jobs[j].exists /\ jobs[j].asset = a}
           IN  /\ {e[1] : e \in latest_jobs} = {a \in call.req : JobsOf(a) # {}}
               /\ \A e, f \in latest_jobs : e[1] = f[1] => e = f
               /\ \A e \in latest_jobs :
                     /\ e[2] \in JobsOf(e[1])
                     /\ \A k \in JobsOf(e[1]) : jobs[k].created <= jobs[e[2]].created
               /\ call.req = {} => latest_jobs = {}

\* C18 witness: two jobs of one asset created at different times and a job
\* of another asset; asked for the first asset and for an asset without
\* jobs, the map holds the later job of the first asset and nothing else.
C18_Witness ==
    /\ call.op = "get_latest_jobs_by_asset_ids"
    /\ call.req = {KbAsset, KbAsset + 2}
    /\ \A j \in RowIds : jobs[j].exists
    /\ jobs[1].asset = KbAsset /\ jobs[2].asset = KbAsset /\ jobs[3].asset = KbAsset + 1
    /\ jobs[1].created < jobs[2].created
    /\ call.result = {<<KbAsset, 2>>}

\* The call recorded is update_job_status(j, COMPLETED, finished_timestamp=True).
CompletedStamped(c, j) ==
    c.op = "update_job_status" /\ c.job = j /\ c.status = COMPLETED /\ c.fin

\* C19: a call update_job_status(j, COMPLETED, finished_timestamp=True) made
\* right after the same call leaves the row of the job as the first call
\* left it: same status, same finished_timestamp.
C19_UpdateIdempotent ==
    [][\A j \in RowIds :
          (CompletedStamped(call, j) /\ CompletedStamped(call', j) /\ call'.n = call.n + 1)
              => jobs'[j] = jobs[j]]_vars

\* C20: a create_job for a job_id the table does not hold inserts a row
\* with status QUEUED and no finished_timestamp and touches no other row; a
\* create_job for a job_id the table holds raises and leaves the table as
\* it is; no job_id ever has more than one row inserted.
C20_CreateJobOncePerId ==
    [][\A j \in RowIds :
          /\ (call'.op = "create_job" /\ call'.job = j /\ call'.n = call.n + 1)
                => IF jobs[j].exists
                   THEN call'.raised = IntegrityError /\ jobs' = jobs
                   ELSE /\ call'.raised = "none"
                        /\ jobs'[j].exists
                        /\ jobs'[j].status = QUEUED
                        /\ jobs'[j].finished = 0
                        /\ \A k \in RowIds : k # j => jobs'[k] = jobs[k]
          /\ call'.rows[j] <= 1
          /\ call'.rows[j] = 1 <=> jobs'[j].exists]_vars

\* C20 witness: a job was created and completed; a second create_job with
\* its job_id raised and the row is still the completed one.
C20_Witness ==
    /\ call.op = "create_job"
    /\ call.raised = IntegrityError
    /\ call.job = 1
    /\ call.rows[1] = 1
    /\ jobs[1].status = COMPLETED
    /\ jobs[1].finished # 0
    /\ jobs[1].asset = KbAsset

\* C22: every FULL read (fast = False) recomputes size from the directory,
\* re-detects every field that is still "Unknown" and persists the result,
\* also for a document that holds every required key, no "Unknown" and a
\* stale size: after the read the document returned and the file both hold
\* the directory's size.
C22_FullReadRecomputes ==
    [][ListKnowledgeBases =>
          /\ mproc'[1].ret["size"] = DirectorySize(store)
          /\ metadata_file' = OnDisk(mproc'[1].ret)]_vars

\* C26: after a FULL metadata read, the chunks, words and characters that
\* are returned and persisted equal the count of the vector store's records
\* and the totals over their texts at that time, even when the store changed
\* since the document was last written.
C26_FullReadMatchesStore ==
    [][ListKnowledgeBases =>
          /\ mproc'[1].ret["chunks"] = Count(store)
          /\ mproc'[1].ret["words"] = TotalWords(store)
          /\ mproc'[1].ret["characters"] = TotalCharacters(store)
          /\ metadata_file'.doc["chunks"] = Count(store)
          /\ metadata_file'.doc["words"] = TotalWords(store)
          /\ metadata_file'.doc["characters"] = TotalCharacters(store)]_vars

\* No other writer touched the knowledge base while task j ran: its request
\* came when nothing else was running, no request for another ingestion came
\* after it, and no cancel request was served since (one that is over has
\* left the job CANCELLED).
Undisturbed(j) ==
    /\ hist[j].alone
    /\ \A k \in JobIds : k > j => ~jobs[k].exists
    /\ cpc = "idle"
    /\ jobs[j].status = IN_PROGRESS

\* C27: when perform_ingestion returns success and no other writer touched
\* the knowledge base meanwhile, the persisted chunks equals the count of the
\* store's records at that moment, and the persisted words and characters
\* equal the totals over the texts of all stored records.
C27_IngestionMetricsMatchStore ==
    [][\A j \in JobIds :
          Finalize(j) /\ Undisturbed(j) =>
            /\ metadata_file'.doc["chunks"] = Count(store')
            /\ metadata_file'.doc["words"] = TotalWords(store')
            /\ metadata_file'.doc["characters"] = TotalCharacters(store')]_vars

\* The source types the file holds (none when the key is missing).
StoredSourceTypes ==
    IF "source_types" \in DOMAIN metadata_file.doc
    THEN metadata_file.doc["source_types"] ELSE {}

\* The lower-cased extensions of the files task j processed.
ProcessedExtensions(j) ==
    {Lower(request[j].names[k][2]) :
       k \in {n \in 1..Len(files[j]) :
                files[j][n] > 0 /\ request[j].names[n][2] # NoDot}}

\* C28 as stated: after a successful ingestion the persisted metadata holds
\* the chunk_size, chunk_overlap and separator of that call, and source_types
\* is the union of the stored source types and the lower-cased extensions of
\* the files processed.
C28_Original ==
    [][\A j \in JobIds :
          Finalize(j) =>
            /\ metadata_file'.st = "doc"
            /\ metadata_file'.doc["chunk_size"] = Some(request[j].chunk_size)
            /\ metadata_file'.doc["chunk_overlap"] = Some(request[j].chunk_overlap)
            /\ metadata_file'.doc["separator"] = Some(request[j].separator)
            /\ metadata_file'.doc["source_types"] =
                 StoredSourceTypes \cup ProcessedExtensions(j)]_vars

\* C28, amended: after a successful ingestion (one without files included)
\* the persisted metadata holds the chunk_size and chunk_overlap of that
\* call, and its separator, or null when the call's separator is empty;
\* source_types is the union of the stored source types and the lower-cased
\* extensions of the files processed, so it loses no element.
C28_IngestionPersistsParameters ==
    [][\A j \in JobIds :
          Finalize(j) =>
            /\ metadata_file'.st = "doc"
            /\ metadata_file'.doc["chunk_size"] = Some(request[j].chunk_size)
            /\ metadata_file'.doc["chunk_overlap"] = Some(request[j].chunk_overlap)
            /\ metadata_file'.doc["separator"] =
                 (IF request[j].separator = "" THEN None
                  ELSE Some(request[j].separator))
            /\ metadata_file'.doc["source_types"] =
                 StoredSourceTypes \cup ProcessedExtensions(j)
            /\ StoredSourceTypes \subseteq metadata_file'.doc["source_types"]]_vars

\* An ingestion without files has succeeded after one that stored the source
\* type of its file: the file holds the parameters of the second request and
\* still the source type of the first.
C28_Witness ==
    \E j \in JobIds :
        /\ files[j] = <<>>
        /\ workout[j].kind = "returned"
        /\ request[j].separator # ""
        /\ metadata_file.doc["separator"] = Some(request[j].separator)
        /\ metadata_file.doc["chunk_size"] = Some(request[j].chunk_size)
        /\ metadata_file.doc["source_types"] = {"txt"}

\* The file holds a document with every required key.
Complete(file) == file.st = "doc" /\ ~MissingKeys(file.doc)

\* C21: a FAST read of a document that contains every required key returns
\* the on-disk document unmodified and writes nothing, also when
\* embedding_provider or embedding_model is still "Unknown".
C21_FastReadLeavesFile ==
    [][\A p \in Procs, env \in Findings :
          MetaRead(p, TRUE, env) /\ Complete(metadata_file) =>
            /\ mproc'[p].ret = metadata_file.doc
            /\ ~mproc'[p].wrote
            /\ mproc'[p].pc = "idle"
            /\ metadata_file' = metadata_file]_vars

\* A FAST read has returned a complete document whose embedding_model is
\* "Unknown", and the file still holds that document.
C21_Witness ==
    \E p \in Procs :
        /\ mproc[p].op = "get_metadata" /\ mproc[p].fast /\ mproc[p].pc = "idle"
        /\ ~mproc[p].wrote
        /\ mproc[p].saw = "doc"
        /\ ~MissingKeys(mproc[p].ret)
        /\ mproc[p].ret["embedding_model"] = Unknown
        /\ metadata_file = OnDisk(mproc[p].ret)

C24_ReadersSeeWholeDocuments ==
    \A p \in Procs : mproc[p].op = "get_metadata" => mproc[p].saw # "undecodable"

\* C25: the id of the knowledge base never changes once it is assigned:
\* every document the file holds, and every document a FAST or FULL read
\* returns, carries the id the knowledge base was given first.
C25_IdIsImmutable ==
    /\ (metadata_file.st = "doc" /\ "id" \in DOMAIN metadata_file.doc)
          => metadata_file.doc["id"] = KbId
    /\ \A p \in Procs :
          (mproc[p].op = "get_metadata" /\ "id" \in DOMAIN mproc[p].ret)
             => mproc[p].ret["id"] = KbId

\* A search string that is empty or only whitespace.
Blank(s) == \A i \in 1..Len(s) : s[i] = " "

\* The records a page of the sequence all must show.
PageOf(all, page, limit) ==
    LET off == (page - 1) * limit
        n == IF Len(all) <= off THEN 0
             ELSE IF Len(all) - off < limit THEN Len(all) - off
             ELSE limit
    IN [i \in 1..n |-> all[off + i]]

\* The response shows exactly the records of shown, in that order.
Shows(shown) ==
    /\ Len(query.chunks) = Len(shown)
    /\ \A i \in 1..Len(shown) :
          /\ query.chunks[i].id = shown[i]
          /\ query.chunks[i].content = Text(shown[i])

\* C29: without a search term, for every page >= 1 and limit >= 1, the
\* listing returns exactly the stored chunks at offsets (page-1)*limit ..
\* (page-1)*limit + limit - 1 in the store's order (fewer on the last page,
\* none beyond it), and total is the store's count.
C29_PageOfStore ==
    (query.page >= 1 /\ Blank(query.search)) =>
        /\ Shows(PageOf(Records(store), query.page, query.limit))
        /\ query.total = Len(Records(store))
        /\ query.total = Count(store)

\* The second page of a store of three or more records, cut short by the
\* end of the store.
C29_Witness ==
    /\ query.page = 2 /\ query.limit = 2 /\ query.search = <<>>
    /\ query.total = 3
    /\ Len(query.chunks) = 1
    /\ query.chunks[1].id = Records(store)[3]

\* The records whose text contains the term, in the store's order.
Matches(term) == SelectSeq(Records(store), LAMBDA k : Contains(Text(k), term))

Trimmed(s) ==
    LET inked == {i \in 1..Len(s) : s[i] # " "}
    IN IF inked = {} THEN <<>>
       ELSE SubSeq(s, CHOOSE i \in inked : \A n \in inked : i <= n,
                      CHOOSE i \in inked : \A n \in inked : i >= n)

C31_TotalPagesIsCeiling ==
    query.page >= 1 =>
        /\ query.total = 0 => query.total_pages = 0
        /\ query.total > 0 =>
              /\ query.total_pages * query.limit >= query.total
              /\ (query.total_pages - 1) * query.limit < query.total

\* A search matched five chunks and the limit is two: three pages, the last
\* one not full.
C31_Witness ==
    /\ query.search = <<"a">>
    /\ query.limit = 2
    /\ query.queries = 1
    /\ query.total = 5
    /\ query.total_pages = 3

\* C32: when the directory of the knowledge base holds no physical vector
\* data, the listing answers with no chunks, total 0 and total_pages 0,
\* echoes page and limit, and opens no handle on the vector store: the
\* registry of handles is as before, no session tag is drawn and no query
\* is sent.
C32_NoDataNoHandle ==
    [][\A page \in 1..MaxPage, limit \in 1..MaxLimit, search \in Searches :
          (~kb_dirs[KbPath].has_data /\ ListChunks(page, limit, search)) =>
            /\ query'.chunks = <<>>
            /\ query'.total = 0
            /\ query'.total_pages = 0
            /\ query'.page = page
            /\ query'.limit = limit
            /\ query'.queries = 0
            /\ storage'.client = NoSystem
            /\ identifier_to_system' = identifier_to_system
            /\ sessions' = sessions]_vars

\* The third page was asked with a search term of a directory without
\* vector data: the answer is the empty page, and no handle exists.
C32_Witness ==
    /\ storage.name = "get_knowledge_base_chunks"
    /\ ~kb_dirs[KbPath].has_data
    /\ query.page = MaxPage /\ query.limit = 2 /\ query.search = <<"a">>
    /\ query.chunks = <<>> /\ query.total = 0 /\ query.total_pages = 0
    /\ sessions = 0
    /\ \A p \in Paths : identifier_to_system[p] = NoSystem

\* C33: every call of get_fresh_chroma_client for a path removes the handle
\* the registry caches under that path; when the engine opens the storage
\* the call returns a handle built anew, whose session tag no earlier handle
\* carries and which is the one the registry now caches under the path; the
\* handles cached under other paths stay in the registry as they are.
C33_FreshHandle ==
    [][\A path \in Paths, outcome \in OpenOutcomes :
          OpenStorage(path, outcome) =>
            /\ \A p \in Paths \ {path} :
                  identifier_to_system'[p] = identifier_to_system[p]
            /\ identifier_to_system[path] # NoSystem
                  => identifier_to_system'[path] # identifier_to_system[path]
            /\ outcome = "ok" => storage'.raised = "none"
            /\ storage'.raised = "none" =>
                  /\ storage'.client # NoSystem
                  /\ storage'.client > sessions
                  /\ \A p \in Paths : storage'.client # identifier_to_system[p]
                  /\ identifier_to_system'[path] = storage'.client
            /\ storage'.raised # "none" =>
                  /\ storage'.client = NoSystem
                  /\ identifier_to_system'[path] = NoSystem]_vars

\* The storage of the first knowledge base was opened while the registry
\* cached a handle under its path and one under the other path: the call
\* returned a new handle, and the other path's handle is still cached.
C33_Witness ==
    /\ storage.name = "get_fresh_chroma_client"
    /\ storage.paths = <<KbPath>>
    /\ storage.raised = "none"
    /\ storage.before[KbPath] # NoSystem
    /\ storage.before[OtherPath] # NoSystem
    /\ storage.client \notin {storage.before[p] : p \in Paths}
    /\ identifier_to_system[KbPath] = storage.client
    /\ identifier_to_system[OtherPath] = storage.before[OtherPath]

\* C34: teardown_storage lets no error of the storage layer through to its
\* caller, so delete_knowledge_base and the bulk delete reach the deletion
\* of the directory of every knowledge base they found.
C34_TeardownNeverBlocksDelete ==
    storage.name \in {"delete_knowledge_base", "delete_knowledge_bases_bulk"}
        => (storage.raised = "none" /\ storage.removed = storage.found)

\* C35: when perform_ingestion has read the cancellation and ended with the
\* "Job cancelled" result under execute_with_status, then once the task is
\* over and no cancel request is being served the status of the job is
\* CANCELLED; it is never COMPLETED.
C35_CancelledStaysCancelled ==
    \A j \in JobIds :
        (tpc[j] = "done" /\ hist[j].sawCancel /\ workout[j] = JobCancelled /\ cpc = "idle")
            => jobs[j].status = CANCELLED

\* C36: after a cancel request for job J was accepted and has returned, and
\* the background ingestion of J has stopped, the store holds no record whose
\* job_id is J, however the request's status update and delete interleave
\* with the checks and writes of the pipeline.
C36_NoChunksAfterCancel ==
    \A j \in JobIds :
        (cpc = "idle" /\ resp.code = 200 /\ cjob.id = j /\ tpc[j] = "done")
            => \A k \in Keys : k[1] = j => store[k] = 0


\* C37: when perform_ingestion returns a success result, the number of
\* records of the store that carry this job's id equals the returned
\* chunks_created, write attempts that failed and were retried included (no
\* cancel request has touched the store).
C37_RecordsEqualChunksCreated ==
    [][\A j \in JobIds :
         (cancelsLeft = MaxCancels /\ ReturnSuccess(j))
             => SumOver(store', {k \in Keys : k[1] = j}, [k \in Keys |-> 1])
                    = workout'[j].val.chunks_created]_vars


\* C38: when perform_ingestion has ended with the cancelled outcome or with
\* an exception, the pipeline has not written the metadata file of the
\* knowledge base: the file is written on the success path only.
C38_MetadataOnlyOnSuccess ==
    \A j \in JobIds :
        (/\ tpc[j] \in {"workret", "workraise"}
         /\ workout[j] = JobCancelled \/ workout[j].kind = "raised")
            => ~hist[j].saved


\* C39: a FAST get_metadata issued while the file still holds the document
\* create_knowledge_base wrote returns that document unmodified, performs no
\* backfill and writes nothing to disk.
C39_CreatedDocumentIsComplete ==
    [][\A p \in Procs, env \in Findings :
         (metadata_file = Created /\ MetaRead(p, TRUE, env))
             => /\ mproc'[p].ret = metadata_file.doc
                /\ ~mproc'[p].wrote
                /\ metadata_file' = metadata_file]_vars


\* ------------------------------------------------ the task under the loop
\* A cancellation delivered while execute_with_status itself is suspended:
\* at the log line before the try block, or at the log line that opens an
\* except clause or the else clause.  No clause takes it there, so the
\* wrapper ends with the CancelledError and sets no status.
ExecCancelled(j, sig) ==
    /\ tpc[j] \in {"fired", "workret", "workraise"}
    /\ ~hist[j].signalled
    /\ sig = UserCancelled => revoked[j]
    /\ eout' = [eout EXCEPT ![j] = [kind |-> "raised", val |-> sig]]
    /\ tpc' = [tpc EXCEPT ![j] = "done"]
    /\ hist' = H(j, "signalled", TRUE)
    /\ UNCHANGED <<call, kbVars, mproc, query, storeVars, jobs, now, files, fi, bi, attempt,
                   processed, total, exc, workout, store, revoked, cancelVars>>

\* The steps the event loop makes on behalf of task j once it is ready.
TaskStep(j) ==
    \/ ExecStart(j)
    \/ BuildEmbeddings(j)
    \/ PreBatchCheck(j)
    \/ AttemptCheck(j)
    \/ WriteBatchWith(j, WriteErrors, {FALSE})
    \/ Finalize(j)
    \/ ReturnSuccess(j)
    \/ RollbackCancelledWith(j, {"ok"})
    \/ RollbackFailedWith(j, {"ok"})
    \/ ExecCompleted(j)
    \/ ExecFailed(j)

\* The steps of a cancel request after its first await.
RequestStep == CancelRevoke \/ CancelUpdate \/ CancelCleanupWith({"ok"})

\* The ingestion with an available job datastore, a store whose writes may
\* fail in every pattern, and cancellations delivered at any await of the
\* task, those of execute_with_status included.
NextLive ==
    \/ \E fs \in FileLists : Ingest(fs)
    \/ \E j \in JobIds : ExecStart(j)
    \/ \E j \in JobIds : BuildEmbeddings(j)
    \/ \E j \in JobIds : PreBatchCheck(j)
    \/ \E j \in JobIds : AttemptCheck(j)
    \/ \E j \in JobIds : WriteBatchWith(j, WriteErrors, {FALSE})
    \/ \E j \in JobIds : Finalize(j)
    \/ \E j \in JobIds : ReturnSuccess(j)
    \/ \E j \in JobIds : RollbackCancelledWith(j, {"ok"})
    \/ \E j \in JobIds : RollbackFailedWith(j, {"ok"})
    \/ \E j \in JobIds : ExecCompleted(j)
    \/ \E j \in JobIds : ExecFailed(j)
    \/ \E j \in JobIds, sig \in CancelSignals : TaskCancelled(j, sig)
    \/ \E j \in JobIds, sig \in CancelSignals : ExecCancelled(j, sig)
    \/ CancelRequest
    \/ CancelRevoke
    \/ CancelUpdate
    \/ CancelCleanupWith({"ok"})

\* The event loop resumes every task that is ready and every request that
\* has been accepted; cancellations and new requests may or may not come.
Fairness ==
    /\ \A j \in JobIds : WF_vars(TaskStep(j))
    /\ WF_vars(RequestStep)

SpecLive == Init /\ [][NextLive]_vars /\ Fairness

\* C40: every job whose execute_with_status has been scheduled eventually
\* has a terminal status with its finished_timestamp set, for every file
\* list and every pattern of write failures, the job datastore being
\* available throughout.
C40_JobReachesTerminalStatus ==
    \A j \in JobIds :
        (tpc[j] = "fired")
            ~> (jobs[j].status \in Terminal /\ jobs[j].finished # 0)

====
